---- MODULE Spec2Model ----
(***************************************************************************)
(* A model of the object pool library (src/src/pool.rs and the policy      *)
(* layers it composes: circuit_breaker.rs, eviction.rs, metrics.rs,        *)
(* health.rs, config.rs).                                                  *)
(*                                                                         *)
(* Threads call the public operations of one pool.  A call is a sequence   *)
(* of steps; one step holds at most one access to a shared container whose *)
(* order against the other threads' steps can change what a caller sees    *)
(* (the ArrayQueue `available`, the DashMap `active`, the CircuitBreaker). *)
(* Accesses that commute with every step of every other thread are folded  *)
(* into the neighbouring step: the Relaxed metric counters, which no       *)
(* operation reads back, and the eviction metadata of an entry the thread  *)
(* holds (only the holder of an entry asks for or changes its metadata).   *)
(* Each CircuitBreaker method is one step.                                 *)
(***************************************************************************)
EXTENDS Integers, Sequences, FiniteSets, Bags, TLC

\* ---- Bounds of the model ------------------------------------------------
\* Number of caller threads sharing the pool.
NumThreads == 2
\* Most calls of get_object / warmup started in one behaviour.
MaxOps == 3
\* Largest `count` passed to warmup.
MaxWarmup == 2
\* Last instant of the model clock.
MaxTime == 2
\* Most objects a pool is constructed with.
MaxInitial == 2
\* Largest max_pool_size configured.
MaxPoolSize == 2
\* Most calls made on a stand-alone circuit breaker.
MaxCalls == 6
\* Largest failure_threshold of a stand-alone circuit breaker.
MaxThreshold == 3
\* Most calls of get_object started by a single caller.
MaxSeqOps == 4
\* polls of one asynchronous checkout
MaxPolls == 3
\* largest count handed to HealthStatus::new
MaxHealth == 20
\* bits of the significand of a floating-point number (f64 has 53)
MantissaBits == 12

\* ---- Program constants --------------------------------------------------
\* record_success closes a half-open circuit at this many successes.
HalfOpenSuccesses == 3

Threads == 1..NumThreads

\* Option<T>: None is the empty set, Some(x) the singleton.
None == {}
Some(x) == {x}
IsSome(o) == o # {}
Get(o) == CHOOSE x \in o : TRUE

Max(a, b) == IF a >= b THEN a ELSE b
Min(a, b) == IF a <= b THEN a ELSE b

VARIABLES
    shape,      \* "fixed" (ObjectPool), "queryable", "dynamic"
    config,     \* PoolConfiguration, immutable after construction
    capacity,   \* ObjectPool.capacity
    available,  \* ObjectPool.available: ArrayQueue<(T, usize)>, FIFO
    active,     \* ObjectPool.active: DashMap<usize, ()>, as its key set
    next_id,    \* ObjectPool.next_id
    metrics,    \* MetricsTracker counters
    health,     \* HealthTracker counters
    metadata,   \* EvictionTracker.metadata: id -> ObjectMetadata
    cb,         \* the CircuitBreaker (fields as a record)
    now,        \* the monotone clock read by Instant::now()
    pc,         \* per thread: where in its current call it is
    local,      \* per thread: the locals of its current call
    leases,     \* per thread: the PooledObject handles it owns
    ret,        \* per thread: what its last call returned
    hist,       \* history of the behaviour (read by the properties only)
    ops,        \* calls started so far (bounds the behaviour)
    begin       \* per thread, for a single caller: the pool as it was when
                \* its last call began (read by the properties only)

vars == <<shape, config, capacity, available, active, next_id, metrics, health,
          metadata, cb, now, pc, local, leases, ret, hist, ops, begin>>

\* ---- circuit_breaker.rs ---------------------------------------------------

CircuitBreaker_new(failure_threshold, timeout) ==
    [state |-> "Closed", failure_count |-> 0, success_count |-> 0,
     failure_threshold |-> failure_threshold, timeout |-> timeout,
     last_failure_time |-> None]

transition_to_open(b) == [b EXCEPT !.state = "Open"]

transition_to_half_open(b) == [b EXCEPT !.state = "HalfOpen", !.success_count = 0]

\* A close that leaves the failure count as it is.
close_keep_failures(b) == [b EXCEPT !.state = "Closed", !.success_count = 0]

transition_to_closed(b) ==
    [b EXCEPT !.state = "Closed", !.failure_count = 0, !.success_count = 0]

\* An elapsed test that already passes at exactly the timeout.
TimeoutReached(b, t) ==
    IsSome(b.last_failure_time) /\ t - Get(b.last_failure_time) >= b.timeout

\* time.elapsed() > self.timeout, for the Open arm of allow_request
TimeoutElapsed(b, t) ==
    IsSome(b.last_failure_time) /\ t - Get(b.last_failure_time) > b.timeout

\* what allow_request returns
allow_request(b, t) ==
    CASE b.state = "Closed" -> TRUE
      [] b.state = "Open" -> TimeoutElapsed(b, t)
      [] b.state = "HalfOpen" -> TRUE

\* the breaker after allow_request
allow_request_effect(b, t) ==
    IF b.state = "Open" /\ TimeoutElapsed(b, t) THEN transition_to_half_open(b) ELSE b

record_success(b) ==
    LET b1 == [b EXCEPT !.success_count = @ + 1]
    IN  IF b1.state = "HalfOpen" /\ b1.success_count >= HalfOpenSuccesses
        THEN transition_to_closed(b1) ELSE b1

\* A record_failure that opens the circuit one failure late.
record_failure_late(b, t) ==
    LET b1 == [b EXCEPT !.failure_count = @ + 1, !.last_failure_time = Some(t)]
    IN  CASE b1.state = "Closed" ->
                IF b1.failure_count > b1.failure_threshold
                THEN transition_to_open(b1) ELSE b1
          [] b1.state = "HalfOpen" -> transition_to_open(b1)
          [] b1.state = "Open" -> b1

record_failure(b, t) ==
    LET b1 == [b EXCEPT !.failure_count = @ + 1, !.last_failure_time = Some(t)]
    IN  CASE b1.state = "Closed" ->
                IF b1.failure_count >= b1.failure_threshold
                THEN transition_to_open(b1) ELSE b1
          [] b1.state = "HalfOpen" -> transition_to_open(b1)
          [] b1.state = "Open" -> b1

\* ---- config.rs ------------------------------------------------------------

\* PoolConfiguration::default(), with max_pool_size scaled to the model
\* (the library's default is 100).
PoolConfiguration_default(max_pool_size) ==
    [max_pool_size |-> max_pool_size,
     max_active_objects |-> None,
     validate_on_return |-> FALSE,
     validation_function |-> None,
     operation_timeout |-> Some(30),
     time_to_live |-> None,
     idle_timeout |-> None,
     enable_circuit_breaker |-> FALSE,
     circuit_breaker_threshold |-> 5,
     circuit_breaker_timeout |-> 60]

with_max_active_objects(c, count) == [c EXCEPT !.max_active_objects = Some(count)]

with_validation(c, func) ==
    [c EXCEPT !.validate_on_return = TRUE, !.validation_function = Some(func)]

with_timeout(c, timeout) == [c EXCEPT !.operation_timeout = Some(timeout)]

with_ttl(c, ttl) == [c EXCEPT !.time_to_live = Some(ttl)]

with_idle_timeout(c, timeout) == [c EXCEPT !.idle_timeout = Some(timeout)]

with_circuit_breaker(c, threshold, timeout) ==
    [c EXCEPT !.enable_circuit_breaker = TRUE,
              !.circuit_breaker_threshold = threshold,
              !.circuit_breaker_timeout = timeout]

\* The validators a pool is configured with: |x| *x > 0 (the library's
\* tests) and |_| false.
validate(func, value) == IF func = "never" THEN FALSE ELSE value > 0

\* ---- eviction.rs ----------------------------------------------------------

\* The EvictionPolicy that ObjectPool::new derives from the configuration.
EvictionPolicy(c) ==
    IF IsSome(c.time_to_live)
    THEN IF IsSome(c.idle_timeout)
         THEN [kind |-> "Combined", ttl |-> Get(c.time_to_live),
               idle_timeout |-> Get(c.idle_timeout)]
         ELSE [kind |-> "TimeToLive", ttl |-> Get(c.time_to_live), idle_timeout |-> 0]
    ELSE IF IsSome(c.idle_timeout)
         THEN [kind |-> "IdleTimeout", ttl |-> 0, idle_timeout |-> Get(c.idle_timeout)]
         ELSE [kind |-> "None", ttl |-> 0, idle_timeout |-> 0]

ObjectMetadata_new(t) == [created_at |-> t, last_used |-> t]

\* An expiry test that measures the time to live from the last use.
ObjectMetadata_is_unused(meta, policy, t) ==
    CASE policy.kind = "None" -> FALSE
      [] policy.kind = "TimeToLive" -> t - meta.last_used > policy.ttl
      [] policy.kind = "IdleTimeout" -> t - meta.last_used > policy.idle_timeout
      [] policy.kind = "Combined" ->
            \/ t - meta.last_used > policy.ttl
            \/ t - meta.last_used > policy.idle_timeout

ObjectMetadata_is_expired(meta, policy, t) ==
    CASE policy.kind = "None" -> FALSE
      [] policy.kind = "TimeToLive" -> t - meta.created_at > policy.ttl
      [] policy.kind = "IdleTimeout" -> t - meta.last_used > policy.idle_timeout
      [] policy.kind = "Combined" ->
            \/ t - meta.created_at > policy.ttl
            \/ t - meta.last_used > policy.idle_timeout

track_object(md, policy, id, t) ==
    IF policy.kind # "None"
    THEN [i \in DOMAIN md \cup {id} |-> IF i = id THEN ObjectMetadata_new(t) ELSE md[i]]
    ELSE md

\* A touch_object that leaves last_used as it is.
touch_nothing(md, policy, id, t) == md

touch_object(md, policy, id, t) ==
    IF policy.kind # "None" /\ id \in DOMAIN md
    THEN [md EXCEPT ![id].last_used = t]
    ELSE md

is_expired(md, policy, id, t) ==
    IF policy.kind = "None" THEN FALSE
    ELSE IF id \in DOMAIN md THEN ObjectMetadata_is_expired(md[id], policy, t)
    ELSE FALSE

\* A remove_object that leaves the metadata in place.
remove_nothing(md, id) == md

remove_object(md, id) == [i \in DOMAIN md \ {id} |-> md[i]]

\* ---- crossbeam ArrayQueue, as pool.rs uses it -----------------------------

\* A queue that is full one entry early.
push_ok_early(q, cap) == Len(q) + 1 < cap

\* push fails (Err) when the queue holds `cap` entries
push_ok(q, cap) == Len(q) < cap
\* A push that puts the entry at the head of the queue.
push_front(q, cap, e) == IF push_ok(q, cap) THEN <<e>> \o q ELSE q

\* A push that loses the entry.
push_lost(q, cap, e) == q

push(q, cap, e) == IF push_ok(q, cap) THEN Append(q, e) ELSE q

\* A pop that leaves the head in the queue.
pop_keep(q) == q

\* pop takes the head; pop_rest is what it leaves
pop_rest(q) == Tail(q)

\* A counter that hands out its value and stays where it is.
fetch_add_none(n) == n

\* next_id.fetch_add(1, Ordering::Relaxed): the counter after the call, which
\* returns the value before it
fetch_add(n) == n + 1

\* ---- pool.rs: PooledObject ------------------------------------------------

\* A handle that records the id 0 whatever the entry.
PooledObject_new_zero(value, object_id) == [value |-> Some(value), object_id |-> 0]

PooledObject_new(value, object_id) == [value |-> Some(value), object_id |-> object_id]

\* An unwrap that hands out the value and leaves it in the handle.
unwrap_keep(l) == l

\* self.value.take() in PooledObject::unwrap: the handle that is left
unwrap_take(l) == [l EXCEPT !.value = None]

\* ---- pool.rs: construction ------------------------------------------------

\* The values a pooled object can have; 0 is the one the validator rejects.
Values == {1, 2}
Invalid == 0

\* The factory of a dynamic pool (|| 42 in the tests): one fixed value.
factory == 1

LocalInit ==
    [entry |-> None, temp_storage |-> <<>>, found |-> None, query |-> 0,
     remaining |-> 0, err |-> "none", deadline |-> None, polls |-> 0]

HistInit(n) ==
    [admitted |-> 0..(n - 1), checkouts |-> EmptyBag, closure_calls |-> EmptyBag,
     extracted |-> {}, expired |-> {}, rejected |-> {}, push_failed |-> {},
     made |-> {}, warmed |-> {}, factory_calls |-> 0, warmup_count |-> 0,
     async_started |-> 0, timed_out |-> None, polls |-> 0,
     found_empty |-> 0, cb_success |-> 0, cb_failure |-> 0, last_failure |-> None]

\* ObjectPool::new(objects, config); QueryableObjectPool::new and
\* DynamicObjectPool::new / with_initial wrap it.
ObjectPool_new(sh, objects, c) ==
    LET cap == Max(Len(objects), c.max_pool_size)
        n == Len(objects)
    IN  /\ shape = sh
        /\ config = c
        /\ capacity = cap
        /\ available = [i \in 1..n |-> [value |-> objects[i], id |-> i - 1]]
        /\ active = {}
        /\ next_id = cap
        /\ metrics = [total_retrieved |-> 0, total_returned |-> 0,
                      pool_empty_events |-> 0, validation_failures |-> 0]
        /\ health = [total_retrieved |-> 0, total_returned |-> 0, pool_empty_count |-> 0]
        /\ metadata = IF EvictionPolicy(c).kind = "None"
                      THEN [i \in {} |-> ObjectMetadata_new(0)]
                      ELSE [i \in 0..(n - 1) |-> ObjectMetadata_new(0)]
        /\ cb = IF c.enable_circuit_breaker
                THEN Some(CircuitBreaker_new(c.circuit_breaker_threshold,
                                             c.circuit_breaker_timeout))
                ELSE None
        /\ now = 0
        /\ local = [t \in Threads |-> LocalInit]
        /\ leases = [t \in Threads |-> <<>>]
        /\ ret = [t \in Threads |-> "none"]
        /\ hist = HistInit(n)
        /\ ops = 0
        /\ begin = [t \in Threads |-> None]

\* ---- pool.rs: the steps of the operations ---------------------------------

policy == EvictionPolicy(config)

Idle(t) == pc[t] = "idle"

\* The pool has a single caller: the other threads were never given it.
Sequential == \E u \in Threads : pc[u] = "parked"

CanStart(t) == Idle(t) /\ ops < (IF Sequential THEN MaxSeqOps ELSE MaxOps)

\* The first step of the pop loop of a checkout.
PopLabel == IF shape = "queryable" THEN "drain" ELSE "pop"

\* Where a checkout goes after check_circuit_breaker let it through.
AfterCb == IF IsSome(config.max_active_objects) THEN "check_max" ELSE PopLabel

\* The first step of a checkout that reads shared state: a gate that is not
\* configured reads none.
FirstLabel == IF IsSome(cb) THEN "check_cb" ELSE AfterCb

\* Thread t is about to take the step l of a checkout, either inside a call or
\* by calling get_object now.
At(t, l) == pc[t] = l \/ (CanStart(t) /\ FirstLabel = l)

\* The predicate a queryable checkout is called with: |x| *x == q.
QueryChoices(t) ==
    IF Idle(t) THEN (IF shape = "queryable" THEN Values ELSE {0}) ELSE {local[t].query}
\* A predicate that accepts every value.
query_any(q, value) == TRUE
query(q, value) == value = q

Jump(t, l, loc) ==
    /\ pc' = [pc EXCEPT ![t] = l]
    /\ local' = [local EXCEPT ![t] = loc]

\* the call of thread t is under way
Running(t, l, loc) ==
    /\ Jump(t, l, loc)
    /\ ret' = [ret EXCEPT ![t] = "pending"]
    /\ leases' = leases

\* the call of thread t returns Err(err)
ReturnErr(t, err) ==
    /\ Jump(t, "idle", LocalInit)
    /\ ret' = [ret EXCEPT ![t] = err]
    /\ leases' = leases

\* ObjectPool::get_object returns Err(err): the caller gets it, except that
\* DynamicObjectPool::get_object sees only None (try_get_object) and goes on.
\* Inside get_object_async the loop sees only None as well and goes to sleep.
InnerErr(t, err, loc) ==
    IF IsSome(loc.deadline)
    THEN Running(t, "sleep",
                 [LocalInit EXCEPT !.deadline = loc.deadline, !.polls = loc.polls])
    ELSE IF shape = "dynamic"
         THEN Running(t, "dyn_check", [loc EXCEPT !.err = err])
         ELSE ReturnErr(t, err)

\* the call of thread t returns Ok(PooledObject::new(obj, id, return_fn))
ReturnLease(t, e, h) ==
    /\ Jump(t, "idle", LocalInit)
    /\ ret' = [ret EXCEPT ![t] = "Ok"]
    /\ leases' = [leases EXCEPT ![t] = Append(@, PooledObject_new(e.value, e.id))]
    /\ hist' = [h EXCEPT !.checkouts = @ (+) SetToBag({e.id})]

\* What is kept of the moment a call of thread t begins: the pool, the result
\* of the thread's previous call (last) and the history as it was when that
\* previous call began (hist_before).
Snapshot(t) ==
    [available |-> available, active |-> active, metrics |-> metrics,
     metadata |-> metadata, cb |-> cb, now |-> now, hist |-> hist,
     next_id |-> next_id, last |-> ret[t],
     hist_before |-> IF begin[t] = None THEN hist ELSE Get(begin[t]).hist]

Begun(t) ==
    /\ ops' = IF Idle(t) THEN ops + 1 ELSE ops
    /\ begin' = IF Idle(t) /\ Sequential
                THEN [begin EXCEPT ![t] = Some(Snapshot(t))] ELSE begin

check_circuit_breaker(t) ==
    /\ At(t, "check_cb")
    /\ Begun(t)
    /\ \E q \in QueryChoices(t) :
        LET loc == [local[t] EXCEPT !.query = q]
            b == Get(cb)
        IN  /\ cb' = Some(allow_request_effect(b, now))
            /\ IF allow_request(b, now)
               THEN Running(t, AfterCb, loc)
               ELSE InnerErr(t, "CircuitBreakerOpen", loc)
    /\ UNCHANGED <<shape, config, capacity, available, active, next_id, metrics,
                   health, metadata, now, hist>>

\* A check_max_active that lets one lease too many through.
check_max_active_late(t) ==
    /\ At(t, "check_max")
    /\ Begun(t)
    /\ \E q \in QueryChoices(t) :
        LET loc == [local[t] EXCEPT !.query = q]
        IN  IF Cardinality(active) > Get(config.max_active_objects)
            THEN InnerErr(t, "MaxActiveObjectsReached", loc)
            ELSE Running(t, PopLabel, loc)
    /\ UNCHANGED <<shape, config, capacity, available, active, next_id, metrics,
                   health, metadata, cb, now, hist>>

check_max_active(t) ==
    /\ At(t, "check_max")
    /\ Begun(t)
    /\ \E q \in QueryChoices(t) :
        LET loc == [local[t] EXCEPT !.query = q]
        IN  IF Cardinality(active) >= Get(config.max_active_objects)
            THEN InnerErr(t, "MaxActiveObjectsReached", loc)
            ELSE Running(t, PopLabel, loc)
    /\ UNCHANGED <<shape, config, capacity, available, active, next_id, metrics,
                   health, metadata, cb, now, hist>>

\* A None arm that does not count the event in the metrics.
PoolEmpty_uncounted(t, loc) ==
    /\ metrics' = metrics
    /\ health' = [health EXCEPT !.pool_empty_count = @ + 1]
    /\ IF IsSome(cb)
       THEN Running(t, "rec_fail", [loc EXCEPT !.err = "PoolEmpty"])
       ELSE InnerErr(t, "PoolEmpty", loc)
    /\ hist' = [hist EXCEPT !.found_empty = @ + 1]
    /\ UNCHANGED <<available, metadata>>

\* The None arm of the pop loop of ObjectPool::get_object.
PoolEmpty(t, loc) ==
    /\ metrics' = [metrics EXCEPT !.pool_empty_events = @ + 1]
    /\ health' = [health EXCEPT !.pool_empty_count = @ + 1]
    /\ IF IsSome(cb)
       THEN Running(t, "rec_fail", [loc EXCEPT !.err = "PoolEmpty"])
       ELSE InnerErr(t, "PoolEmpty", loc)
    /\ hist' = [hist EXCEPT !.found_empty = @ + 1]
    /\ UNCHANGED <<available, metadata>>

\* One turn of the pop loop of ObjectPool::get_object: self.available.pop(),
\* then the expiry check of the popped entry.
pop(t) ==
    /\ At(t, "pop")
    /\ Begun(t)
    /\ IF available = <<>>
       THEN PoolEmpty(t, local[t])
       ELSE LET e == Head(available)
            IN  /\ available' = pop_rest(available)
                /\ IF is_expired(metadata, policy, e.id, now)
                   THEN /\ metadata' = remove_object(metadata, e.id)
                        /\ hist' = [hist EXCEPT !.expired = @ \cup {e.id}]
                        /\ Running(t, "pop", local[t])
                   ELSE /\ Running(t, "mark", [local[t] EXCEPT !.entry = Some(e)])
                        /\ UNCHANGED <<metadata, hist>>
                /\ UNCHANGED <<metrics, health>>
    /\ UNCHANGED <<shape, config, capacity, active, next_id, cb, now>>

\* A Some arm that does not insert the id into the active map.
mark_unmarked(t) ==
    /\ pc[t] = "mark"
    /\ LET e == Get(local[t].entry)
       IN  /\ active' = active
           /\ metadata' = touch_object(metadata, policy, e.id, now)
           /\ metrics' = [metrics EXCEPT !.total_retrieved = @ + 1]
           /\ health' = [health EXCEPT !.total_retrieved = @ + 1]
           /\ IF IsSome(cb)
              THEN Running(t, "rec_succ", local[t]) /\ hist' = hist
              ELSE ReturnLease(t, e, hist)
    /\ UNCHANGED <<shape, config, capacity, available, next_id, cb, now, ops, begin>>

\* The Some arm after the expiry check: active.insert, touch_object and the
\* retrieved counters; then record_success or the lease.
mark(t) ==
    /\ pc[t] = "mark"
    /\ LET e == Get(local[t].entry)
       IN  /\ active' = active \cup {e.id}
           /\ metadata' = touch_object(metadata, policy, e.id, now)
           /\ metrics' = [metrics EXCEPT !.total_retrieved = @ + 1]
           /\ health' = [health EXCEPT !.total_retrieved = @ + 1]
           /\ IF IsSome(cb)
              THEN Running(t, "rec_succ", local[t]) /\ hist' = hist
              ELSE ReturnLease(t, e, hist)
    /\ UNCHANGED <<shape, config, capacity, available, next_id, cb, now, ops, begin>>

\* cb.record_success() of a checkout, and the lease it returns.
rec_succ(t) ==
    /\ pc[t] = "rec_succ"
    /\ cb' = Some(record_success(Get(cb)))
    /\ ReturnLease(t, Get(local[t].entry), [hist EXCEPT !.cb_success = @ + 1])
    /\ UNCHANGED <<shape, config, capacity, available, active, next_id, metrics,
                   health, metadata, now, ops, begin>>

\* cb.record_failure() of a checkout, and the error it returns.
rec_fail(t) ==
    /\ pc[t] = "rec_fail"
    /\ cb' = Some(record_failure(Get(cb), now))
    /\ InnerErr(t, local[t].err, local[t])
    /\ hist' = [hist EXCEPT !.cb_failure = @ + 1, !.last_failure = Some(now)]
    /\ UNCHANGED <<shape, config, capacity, available, active, next_id, metrics,
                   health, metadata, now, ops, begin>>

\* DynamicObjectPool::get_object after try_get_object gave None:
\* the test self.inner.active.len() < self.inner.capacity.
dyn_check(t) ==
    /\ pc[t] = "dyn_check"
    /\ IF Cardinality(active) < capacity
       THEN Running(t, "dyn_make", local[t])
       ELSE ReturnErr(t, "PoolFull")
    /\ UNCHANGED <<shape, config, capacity, available, active, next_id, metrics,
                   health, metadata, cb, now, hist, ops, begin>>

\* DynamicObjectPool::get_object: the factory call, the fresh id, and the
\* bookkeeping of the manufactured object.
dyn_make(t) ==
    /\ pc[t] = "dyn_make"
    /\ LET id == next_id
       IN  /\ next_id' = fetch_add(next_id)
           /\ metadata' = track_object(metadata, policy, id, now)
           /\ active' = active \cup {id}
           /\ metrics' = [metrics EXCEPT !.total_retrieved = @ + 1]
           /\ health' = [health EXCEPT !.total_retrieved = @ + 1]
           /\ ReturnLease(t, [value |-> factory, id |-> id],
                          [hist EXCEPT !.factory_calls = @ + 1,
                                       !.admitted = @ \cup {id},
                                       !.made = @ \cup {<<id, local[t].err>>}])
    /\ UNCHANGED <<shape, config, capacity, available, cb, now, ops, begin>>

\* An else arm that returns NoMatchFound without record_failure.
Decide_unrecorded(t, loc) ==
    IF IsSome(loc.found)
    THEN Running(t, "mark", [loc EXCEPT !.entry = loc.found])
    ELSE ReturnErr(t, "NoMatchFound")

\* The end of QueryableObjectPool::get_object, once the non-matching entries
\* are back: the found entry goes on to be leased, or the call fails.
Decide(t, loc) ==
    IF IsSome(loc.found)
    THEN Running(t, "mark", [loc EXCEPT !.entry = loc.found])
    ELSE IF IsSome(cb)
         THEN Running(t, "rec_fail", [loc EXCEPT !.err = "NoMatchFound"])
         ELSE ReturnErr(t, "NoMatchFound")

\* the history after Decide: a call that found no match is counted
NoMatch(loc, h) ==
    IF IsSome(loc.found) THEN h ELSE [h EXCEPT !.found_empty = @ + 1]

\* One turn of the drain loop of QueryableObjectPool::get_object.
drain(t) ==
    /\ At(t, "drain")
    /\ Begun(t)
    /\ \E q \in QueryChoices(t) :
        LET loc == [local[t] EXCEPT !.query = q]
        IN  IF available = <<>>
            THEN /\ IF loc.temp_storage = <<>>
                    THEN Decide(t, loc) /\ hist' = NoMatch(loc, hist)
                    ELSE Running(t, "refill", loc) /\ hist' = hist
                 /\ UNCHANGED <<available, metadata>>
            ELSE LET e == Head(available)
                 IN  /\ available' = pop_rest(available)
                     /\ IF is_expired(metadata, policy, e.id, now)
                        THEN /\ metadata' = remove_object(metadata, e.id)
                             /\ hist' = [hist EXCEPT !.expired = @ \cup {e.id}]
                             /\ Running(t, "drain", loc)
                        ELSE /\ UNCHANGED <<metadata, hist>>
                             /\ IF loc.found = None /\ query(q, e.value)
                                THEN Running(t, "drain", [loc EXCEPT !.found = Some(e)])
                                ELSE Running(t, "drain",
                                       [loc EXCEPT !.temp_storage = Append(@, e)])
    /\ UNCHANGED <<shape, config, capacity, active, next_id, metrics, health, cb, now>>

\* A turn of the loop that drops the item instead of pushing it.
refill_drop(t) ==
    /\ pc[t] = "refill"
    /\ LET loc == [local[t] EXCEPT !.temp_storage = Tail(@)]
       IN  /\ available' = available
           /\ IF loc.temp_storage = <<>>
              THEN Decide(t, loc) /\ hist' = NoMatch(loc, hist)
              ELSE Running(t, "refill", loc) /\ hist' = hist
    /\ UNCHANGED <<shape, config, capacity, active, next_id, metrics, health,
                   metadata, cb, now, ops, begin>>

\* One turn of the loop that pushes temp_storage back.
refill(t) ==
    /\ pc[t] = "refill"
    /\ LET e == Head(local[t].temp_storage)
           loc == [local[t] EXCEPT !.temp_storage = Tail(@)]
           h == IF push_ok(available, capacity) THEN hist
                ELSE [hist EXCEPT !.push_failed = @ \cup {e.id}]
       IN  /\ available' = push(available, capacity, e)
           /\ IF loc.temp_storage = <<>>
              THEN Decide(t, loc) /\ hist' = NoMatch(loc, h)
              ELSE Running(t, "refill", loc) /\ hist' = h
    /\ UNCHANGED <<shape, config, capacity, active, next_id, metrics, health,
                   metadata, cb, now, ops, begin>>

RemoveAt(q, i) == SubSeq(q, 1, i - 1) \o SubSeq(q, i + 1, Len(q))

\* impl Drop for PooledObject, for the handle l of thread t, up to and with
\* active.remove of the return closure (make_return_fn); h is the history so
\* far.  A handle whose value was taken drops without calling the closure.
PooledObject_drop(t, l, h) ==
    IF IsSome(l.value)
    THEN LET obj == Get(l.value)
             id == l.object_id
             h1 == [h EXCEPT !.closure_calls = @ (+) SetToBag({id})]
         IN  /\ active' = active \ {id}
             /\ IF /\ config.validate_on_return
                   /\ IsSome(config.validation_function)
                   /\ ~validate(Get(config.validation_function), obj)
                THEN /\ metrics' = [metrics EXCEPT !.validation_failures = @ + 1]
                     /\ metadata' = remove_object(metadata, id)
                     /\ hist' = [h1 EXCEPT !.rejected = @ \cup {id}]
                     /\ UNCHANGED <<pc, local>>
                ELSE /\ metadata' = touch_object(metadata, policy, id, now)
                     /\ Jump(t, "ret_push",
                             [local[t] EXCEPT !.entry = Some([value |-> obj, id |-> id])])
                     /\ hist' = h1
                     /\ UNCHANGED metrics
    ELSE /\ hist' = h
         /\ UNCHANGED <<active, metrics, metadata, pc, local>>

\* A thread lets one of its leases go out of scope.
drop(t) ==
    /\ Idle(t)
    /\ \E i \in 1..Len(leases[t]) :
        /\ leases' = [leases EXCEPT ![t] = RemoveAt(@, i)]
        /\ PooledObject_drop(t, leases[t][i], hist)
    /\ UNCHANGED <<shape, config, capacity, available, next_id, health, cb, now,
                   ret, ops, begin>>

\* A return that pushes the entry back and does not count it.
ret_push_uncounted(t) ==
    /\ pc[t] = "ret_push"
    /\ LET e == Get(local[t].entry)
       IN  /\ available' = push(available, capacity, e)
           /\ hist' = IF push_ok(available, capacity) THEN hist
                      ELSE [hist EXCEPT !.push_failed = @ \cup {e.id}]
    /\ Jump(t, "idle", LocalInit)
    /\ UNCHANGED <<shape, config, capacity, active, next_id, metadata, cb, now,
                   leases, ret, ops, begin, metrics, health>>

\* The rest of the return closure: available.push and the returned counters.
ret_push(t) ==
    /\ pc[t] = "ret_push"
    /\ LET e == Get(local[t].entry)
       IN  /\ available' = push(available, capacity, e)
           /\ hist' = IF push_ok(available, capacity) THEN hist
                      ELSE [hist EXCEPT !.push_failed = @ \cup {e.id}]
    /\ metrics' = [metrics EXCEPT !.total_returned = @ + 1]
    /\ health' = [health EXCEPT !.total_returned = @ + 1]
    /\ Jump(t, "idle", LocalInit)
    /\ UNCHANGED <<shape, config, capacity, active, next_id, metadata, cb, now,
                   leases, ret, ops, begin>>

\* PooledObject::unwrap on one of the leases of thread t: the value is taken
\* out and the handle, consumed by the call, is dropped.
unwrap(t) ==
    /\ Idle(t)
    /\ \E i \in 1..Len(leases[t]) :
        LET l == leases[t][i]
        IN  /\ leases' = [leases EXCEPT ![t] = RemoveAt(@, i)]
            /\ PooledObject_drop(t, unwrap_take(l),
                                 [hist EXCEPT !.extracted = @ \cup {l.object_id}])
    /\ UNCHANGED <<shape, config, capacity, available, next_id, health, cb, now,
                   ret, ops, begin>>

\* DerefMut: the holder of a lease changes the value into one the validator
\* rejects.
deref_mut(t) ==
    /\ Idle(t)
    /\ config.validate_on_return
    /\ \E i \in 1..Len(leases[t]) :
        /\ leases[t][i].value # Some(Invalid)
        /\ leases' = [leases EXCEPT ![t][i].value = Some(Invalid)]
    /\ UNCHANGED <<shape, config, capacity, available, active, next_id, metrics,
                   health, metadata, cb, now, pc, local, ret, hist, ops, begin>>

\* A loop that runs count times whatever the capacity.
warmup_turns_all(count, cap) == count

\* 0..count.min(self.inner.capacity): the turns of the warmup loop
warmup_turns(count, cap) == Min(count, cap)

\* ---- pool.rs: get_object_async ------------------------------------------------
\* The clock counts seconds; the 10 ms sleep between two polls is shorter than
\* any interval the clock shows.

\* self.config.operation_timeout.unwrap_or(Duration::from_secs(30))
DefaultTimeout == 30
operation_timeout(c) ==
    IF IsSome(c.operation_timeout) THEN Get(c.operation_timeout) ELSE DefaultTimeout

\* A deadline that counts as elapsed at any instant.
deadline_any(deadline, t) == TRUE

\* tokio::time::timeout: the deadline has elapsed at the instant t
deadline_elapsed(deadline, t) == t >= deadline

\* ObjectPool::get_object_async is called and polled for the first time: the
\* deadline is set and the first try_get_object begins.
get_object_async(t) ==
    /\ shape = "fixed"
    /\ CanStart(t)
    /\ Begun(t)
    /\ Running(t, FirstLabel,
               [LocalInit EXCEPT !.deadline = Some(now + operation_timeout(config)),
                                 !.polls = 1])
    /\ hist' = [hist EXCEPT !.async_started = now, !.timed_out = None, !.polls = 1]
    /\ UNCHANGED <<shape, config, capacity, available, active, next_id, metrics,
                   health, metadata, cb, now>>

\* The sleep is over: the loop calls try_get_object again.
poll(t) ==
    /\ pc[t] = "sleep"
    /\ local[t].polls < MaxPolls
    /\ Jump(t, FirstLabel, [local[t] EXCEPT !.polls = @ + 1])
    /\ hist' = [hist EXCEPT !.polls = @ + 1]
    /\ UNCHANGED <<shape, config, capacity, available, active, next_id, metrics,
                   health, metadata, cb, now, leases, ret, ops, begin>>

\* The deadline elapses while the loop sleeps: Err(PoolError::Timeout(timeout)).
timeout(t) ==
    /\ pc[t] = "sleep"
    /\ deadline_elapsed(Get(local[t].deadline), now)
    /\ ReturnErr(t, "Timeout")
    /\ hist' = [hist EXCEPT !.timed_out = Some(operation_timeout(config))]
    /\ UNCHANGED <<shape, config, capacity, available, active, next_id, metrics,
                   health, metadata, cb, now, ops, begin>>

\* The caller drops the future while the loop sleeps.
cancel(t) ==
    /\ pc[t] = "sleep"
    /\ ReturnErr(t, "FutureDropped")
    /\ UNCHANGED <<shape, config, capacity, available, active, next_id, metrics,
                   health, metadata, cb, now, hist, ops, begin>>

\* One turn of the loop of DynamicObjectPool::warmup(count) (warmup_async runs
\* the same loop): factory, fresh id, track_object, push; a failed push ends it.
warmup(t) ==
    /\ shape = "dynamic"
    /\ CanStart(t) \/ pc[t] = "warmup"
    /\ Begun(t)
    /\ \E count \in (IF Idle(t) THEN 1..MaxWarmup ELSE {local[t].remaining}) :
        LET todo == IF Idle(t) THEN warmup_turns(count, capacity) ELSE count
            id == next_id
            h == IF Idle(t) THEN [hist EXCEPT !.warmup_count = count] ELSE hist
        IN  /\ todo > 0
            /\ next_id' = fetch_add(next_id)
            /\ metadata' = track_object(metadata, policy, id, now)
            /\ available' = push(available, capacity, [value |-> factory, id |-> id])
            /\ hist' = IF push_ok(available, capacity)
                       THEN [h EXCEPT !.factory_calls = @ + 1,
                                      !.admitted = @ \cup {id},
                                      !.warmed = @ \cup {id}]
                       ELSE [h EXCEPT !.factory_calls = @ + 1]
            /\ IF push_ok(available, capacity) /\ todo > 1
               THEN Jump(t, "warmup", [local[t] EXCEPT !.remaining = todo - 1])
               ELSE Jump(t, "idle", LocalInit)
            /\ ret' = [ret EXCEPT ![t] =
                         IF push_ok(available, capacity) /\ todo > 1
                         THEN "pending" ELSE "Ok"]
    /\ UNCHANGED <<shape, config, capacity, active, metrics, health, cb, now, leases>>

\* Time passes, and a reaper takes the expired entries out of the queue.
Tick_reaping ==
    /\ now < MaxTime
    /\ now' = now + 1
    /\ available' = SelectSeq(available,
                        LAMBDA e : ~is_expired(metadata, policy, e.id, now + 1))
    /\ UNCHANGED <<shape, config, capacity, active, next_id, metrics,
                   health, metadata, cb, pc, local, leases, ret, hist, ops, begin>>

\* Time passes.
Tick ==
    /\ now < MaxTime
    /\ now' = now + 1
    /\ UNCHANGED <<shape, config, capacity, available, active, next_id, metrics,
                   health, metadata, cb, pc, local, leases, ret, hist, ops, begin>>

\* ---- The pool under concurrent callers --------------------------------------

\* The pools the threads are given: each shape, small sizes, and one optional
\* policy at a time on top of the default configuration.
Sizes == {s \in [n : 0..MaxInitial, max_pool_size : 1..MaxPoolSize] :
            s.n <= s.max_pool_size}

Policies(c) ==
    {c, with_max_active_objects(c, 1), with_validation(c, "positive"),
     with_circuit_breaker(c, 1, 1), with_ttl(c, 1)}

Objects(sh, n) == IF sh = "queryable" THEN [1..n -> Values] ELSE [1..n -> {1}]

Init ==
    \E sh \in {"fixed", "queryable", "dynamic"} : \E s \in Sizes :
        \E objects \in Objects(sh, s.n) :
            \E c \in Policies(PoolConfiguration_default(s.max_pool_size)) :
                /\ sh # "dynamic" => s.n > 0
                /\ ObjectPool_new(sh, objects, c)
                /\ pc = [t \in Threads |-> "idle"]

Step(t) ==
    \/ check_circuit_breaker(t)
    \/ check_max_active(t)
    \/ pop(t)
    \/ drain(t)
    \/ refill(t)
    \/ mark(t)
    \/ rec_succ(t)
    \/ rec_fail(t)
    \/ dyn_check(t)
    \/ dyn_make(t)
    \/ warmup(t)
    \/ drop(t)
    \/ ret_push(t)
    \/ unwrap(t)
    \/ deref_mut(t)

Next == (\E t \in Threads : Step(t)) \/ Tick

Spec == Init /\ [][Next]_vars

\* ---- A fixed pool with a single caller ---------------------------------------
\* Thread 1 alone calls get_object and drops, unwraps or changes its leases,
\* one call after the other, while time passes.

SeqPolicies(c) ==
    {c, with_max_active_objects(c, 0), with_max_active_objects(c, 1),
     with_validation(c, "positive"), with_validation(c, "never"),
     with_circuit_breaker(c, 1, 1), with_circuit_breaker(c, 2, 1),
     with_ttl(c, 1), with_ttl(with_circuit_breaker(c, 1, 1), 1),
     with_ttl(with_validation(c, "never"), 1),
     with_ttl(with_max_active_objects(with_circuit_breaker(c, 1, 1), 1), 1)}

SeqInit ==
    \E s \in Sizes : \E c \in SeqPolicies(PoolConfiguration_default(s.max_pool_size)) :
        /\ s.n > 0
        /\ ObjectPool_new("fixed", [i \in 1..s.n |-> 1], c)
        /\ pc = [t \in Threads |-> IF t = 1 THEN "idle" ELSE "parked"]

SeqNext ==
    \/ check_circuit_breaker(1)
    \/ check_max_active(1)
    \/ pop(1)
    \/ mark(1)
    \/ rec_succ(1)
    \/ rec_fail(1)
    \/ drop(1)
    \/ ret_push(1)
    \/ unwrap(1)
    \/ deref_mut(1)
    \/ Tick

SeqSpec == SeqInit /\ [][SeqNext]_vars

\* ---- A queryable pool with a single caller -----------------------------------
\* Thread 1 alone calls get_object(query) and drops, unwraps or changes its
\* leases, one call after the other, while time passes.

\* the objects of test_queryable_multiple_matches
MultipleMatches == <<1, 2, 3, 2, 4>>

QueryObjects ==
    {MultipleMatches} \cup UNION {[1..n -> Values] : n \in 1..MaxInitial}

QueryPolicies(c) ==
    {c, with_max_active_objects(c, 1), with_circuit_breaker(c, 1, 1),
     with_ttl(c, 1), with_ttl(with_circuit_breaker(c, 2, 1), 1)}

QueryInit ==
    \E objects \in QueryObjects :
        \E c \in QueryPolicies(PoolConfiguration_default(MaxPoolSize)) :
            /\ ObjectPool_new("queryable", objects, c)
            /\ pc = [t \in Threads |-> IF t = 1 THEN "idle" ELSE "parked"]

QueryNext ==
    \/ check_circuit_breaker(1)
    \/ check_max_active(1)
    \/ drain(1)
    \/ refill(1)
    \/ mark(1)
    \/ rec_succ(1)
    \/ rec_fail(1)
    \/ drop(1)
    \/ ret_push(1)
    \/ unwrap(1)
    \/ Tick

QuerySpec == QueryInit /\ [][QueryNext]_vars

\* ---- A dynamic pool with a single caller -------------------------------------
\* Thread 1 alone calls get_object and warmup and drops or unwraps its leases,
\* one call after the other, while time passes.

DynPolicies(c) ==
    {c, with_max_active_objects(c, 1), with_circuit_breaker(c, 1, 1),
     with_ttl(c, 1), with_ttl(with_circuit_breaker(c, 1, 1), 1)}

DynInit ==
    \E s \in Sizes : \E c \in DynPolicies(PoolConfiguration_default(s.max_pool_size)) :
        /\ ObjectPool_new("dynamic", [i \in 1..s.n |-> 1], c)
        /\ pc = [t \in Threads |-> IF t = 1 THEN "idle" ELSE "parked"]

DynNext ==
    \/ check_circuit_breaker(1)
    \/ check_max_active(1)
    \/ pop(1)
    \/ mark(1)
    \/ rec_succ(1)
    \/ rec_fail(1)
    \/ dyn_check(1)
    \/ dyn_make(1)
    \/ warmup(1)
    \/ drop(1)
    \/ ret_push(1)
    \/ unwrap(1)
    \/ Tick

DynSpec == DynInit /\ [][DynNext]_vars

\* ---- A fixed pool with an asynchronous caller ---------------------------------
\* Thread 1 calls get_object_async (and get_object) and drops its leases;
\* thread 2 calls get_object and drops its leases meanwhile.  The clock goes
\* through the first seconds and the seconds from the default timeout on.

MaxAsyncTime == DefaultTimeout + MaxTime
AsyncInstants == {i \in 0..MaxAsyncTime : i <= MaxTime \/ i >= DefaultTimeout}

AsyncTick ==
    /\ \E i \in AsyncInstants :
          /\ i > now
          /\ \A j \in AsyncInstants : j > now => i <= j
          /\ now' = i
    /\ UNCHANGED <<shape, config, capacity, available, active, next_id, metrics,
                   health, metadata, cb, pc, local, leases, ret, hist, ops, begin>>

AsyncTimeouts(c) ==
    {[c EXCEPT !.operation_timeout = None], with_timeout(c, 1), with_timeout(c, 2)}

AsyncPolicies(c) ==
    {c, with_max_active_objects(c, 1), with_circuit_breaker(c, 1, 1), with_ttl(c, 1)}

AsyncInit ==
    \E s \in Sizes :
        \E c0 \in AsyncTimeouts(PoolConfiguration_default(s.max_pool_size)) :
            \E c \in AsyncPolicies(c0) :
                /\ s.n > 0
                /\ ObjectPool_new("fixed", [i \in 1..s.n |-> 1], c)
                /\ pc = [t \in Threads |-> "idle"]

AsyncStep(t) ==
    \/ check_circuit_breaker(t)
    \/ check_max_active(t)
    \/ pop(t)
    \/ mark(t)
    \/ rec_succ(t)
    \/ rec_fail(t)
    \/ drop(t)
    \/ ret_push(t)

AsyncNext ==
    \/ get_object_async(1)
    \/ poll(1)
    \/ timeout(1)
    \/ cancel(1)
    \/ \E t \in Threads : AsyncStep(t)
    \/ AsyncTick

AsyncSpec == AsyncInit /\ [][AsyncNext]_vars

\* ---- health.rs: HealthStatus ----------------------------------------------------
\* A positive floating-point number is m / 2^k with a significand m of
\* MantissaBits bits; zero has m = 0.

RECURSIVE Pow2(_)
Pow2(n) == IF n = 0 THEN 1 ELSE 2 * Pow2(n - 1)

\* n / d rounded to the nearest integer, ties to even
RoundDiv(n, d) ==
    LET q == n \div d
        r == n % d
    IN  IF 2 * r > d \/ (2 * r = d /\ q % 2 = 1) THEN q + 1 ELSE q

\* the least k from k0 on that puts a * 2^k / c at or above 2^(MantissaBits-1)
RECURSIVE Scale(_, _, _)
Scale(a, c, k0) ==
    IF a * Pow2(k0) >= c * Pow2(MantissaBits - 1) THEN k0 ELSE Scale(a, c, k0 + 1)

\* a as f64 / c as f64, also the value of a decimal literal a/c
f64_div(a, c) ==
    IF a = 0
    THEN [m |-> 0, k |-> 0]
    ELSE LET k == Scale(a, c, 0)
             m == RoundDiv(a * Pow2(k), c)
         IN  IF m = Pow2(MantissaBits)
             THEN [m |-> Pow2(MantissaBits - 1), k |-> k - 1]
             ELSE [m |-> m, k |-> k]

\* A comparison that also holds of equal numbers.
f64_ge(x, y) == x.m * Pow2(y.k) >= y.m * Pow2(x.k)

\* x > y
f64_gt(x, y) == x.m * Pow2(y.k) > y.m * Pow2(x.k)

\* HealthStatus::new(available, active, capacity)
HealthStatus_new(avail, act, cap) ==
    LET utilization == IF cap > 0 THEN f64_div(act, cap) ELSE f64_div(0, 1)
        high == f64_gt(utilization, f64_div(9, 10))
        warnings ==
            (IF high THEN <<"High utilization">> ELSE <<>>)
                \o (IF avail = 0 /\ cap > 0 THEN <<"Pool is empty">> ELSE <<>>)
    IN  [is_healthy |-> ~high,
         warning_count |-> Len(warnings),
         utilization |-> utilization,
         available_objects |-> avail,
         active_objects |-> act,
         total_capacity |-> cap,
         warnings |-> warnings]

\* One caller hands three counts to HealthStatus::new; hist keeps the counts
\* and health receives the status.
HealthInit ==
    \E v \in 0..MaxHealth : \E a \in 0..MaxHealth : \E c \in 0..MaxHealth :
        /\ hist = [available |-> v, active |-> a, capacity |-> c]
        /\ health = [total_retrieved |-> 0, total_returned |-> 0, pool_empty_count |-> 0]
        /\ ops = 0
        /\ shape = "health"
        /\ config = PoolConfiguration_default(0)
        /\ capacity = 0
        /\ available = <<>>
        /\ active = {}
        /\ next_id = 0
        /\ metrics = [total_retrieved |-> 0, total_returned |-> 0,
                      pool_empty_events |-> 0, validation_failures |-> 0]
        /\ metadata = [i \in {} |-> ObjectMetadata_new(0)]
        /\ cb = None
        /\ now = 0
        /\ pc = [t \in Threads |-> "idle"]
        /\ local = [t \in Threads |-> LocalInit]
        /\ leases = [t \in Threads |-> <<>>]
        /\ ret = [t \in Threads |-> "none"]
        /\ begin = [t \in Threads |-> None]

call_HealthStatus_new ==
    /\ ops = 0
    /\ ops' = 1
    /\ health' = HealthStatus_new(hist.available, hist.active, hist.capacity)
    /\ UNCHANGED <<shape, config, capacity, available, active, next_id, metrics,
                   metadata, cb, now, pc, local, leases, ret, hist, begin>>

HealthNext == call_HealthStatus_new

HealthSpec == HealthInit /\ [][HealthNext]_vars

\* ---- A circuit breaker used on its own --------------------------------------
\* One caller drives the public methods of a CircuitBreaker.  ret[1] is the
\* answer of the last allow_request.  hist is the history of the calls:
\*   consecutive_failures  failures recorded since the last recorded success
\*                         (or reset)
\*   last_failure          the instant of the last record_failure call
\*   half_open_successes   successes recorded since the circuit last became
\*                         half-open
\*   call                  the method called last

BreakerInit ==
    \E threshold \in 1..MaxThreshold :
        /\ cb = Some(CircuitBreaker_new(threshold, 1))
        /\ hist = [consecutive_failures |-> 0, last_failure |-> None,
                   half_open_successes |-> 0, call |-> "none"]
        /\ now = 0
        /\ ops = 0
        /\ ret = [t \in Threads |-> "none"]
        /\ shape = "breaker"
        /\ config = PoolConfiguration_default(0)
        /\ capacity = 0
        /\ available = <<>>
        /\ active = {}
        /\ next_id = 0
        /\ metrics = [total_retrieved |-> 0, total_returned |-> 0,
                      pool_empty_events |-> 0, validation_failures |-> 0]
        /\ health = [total_retrieved |-> 0, total_returned |-> 0, pool_empty_count |-> 0]
        /\ metadata = [i \in {} |-> ObjectMetadata_new(0)]
        /\ pc = [t \in Threads |-> "idle"]
        /\ local = [t \in Threads |-> LocalInit]
        /\ leases = [t \in Threads |-> <<>>]
        /\ begin = [t \in Threads |-> None]

BreakerCall ==
    /\ ops < MaxCalls
    /\ ops' = ops + 1
    /\ UNCHANGED <<shape, config, capacity, available, active, next_id, metrics,
                   health, metadata, now, pc, local, leases, begin>>

call_allow_request ==
    /\ BreakerCall
    /\ cb' = Some(allow_request_effect(Get(cb), now))
    /\ ret' = [ret EXCEPT ![1] = IF allow_request(Get(cb), now) THEN "true" ELSE "false"]
    /\ hist' = [hist EXCEPT !.call = "allow_request",
                            !.half_open_successes =
                                IF Get(cb).state # "HalfOpen" THEN 0 ELSE @]

call_record_success ==
    /\ BreakerCall
    /\ cb' = Some(record_success(Get(cb)))
    /\ hist' = [hist EXCEPT !.consecutive_failures = 0,
                            !.half_open_successes = @ + 1,
                            !.call = "record_success"]
    /\ ret' = [ret EXCEPT ![1] = "none"]

call_record_failure ==
    /\ BreakerCall
    /\ cb' = Some(record_failure(Get(cb), now))
    /\ hist' = [hist EXCEPT !.consecutive_failures = @ + 1,
                            !.last_failure = Some(now),
                            !.call = "record_failure"]
    /\ ret' = [ret EXCEPT ![1] = "none"]

call_reset ==
    /\ BreakerCall
    /\ cb' = Some(transition_to_closed(Get(cb)))
    /\ hist' = [hist EXCEPT !.consecutive_failures = 0, !.call = "reset"]
    /\ ret' = [ret EXCEPT ![1] = "none"]

BreakerNext ==
    \/ call_allow_request
    \/ call_record_success
    \/ call_record_failure
    \/ call_reset
    \/ Tick

BreakerSpec == BreakerInit /\ [][BreakerNext]_vars

\* ---- Properties -------------------------------------------------------------

Quiescent == \A t \in Threads : Idle(t)

\* the handles of the live leases, as (thread, index) pairs
LeaseSlots ==
    {s \in Threads \X (1..Max(MaxOps, MaxSeqOps)) : s[2] <= Len(leases[s[1]])}
LeaseAt(s) == leases[s[1]][s[2]]
NumLive == Cardinality(LeaseSlots)
LiveOf(id) == Cardinality({s \in LeaseSlots : LeaseAt(s).object_id = id})

AvailableIds == {available[i].id : i \in 1..Len(available)}
Evicted == hist.expired \cup hist.rejected \cup hist.extracted

\* C1: no entry id has two live leases at the same time, under every
\* interleaving of checkouts and lease drops, for each pool shape.
C1_OneLeasePerEntry ==
    \A s1, s2 \in LeaseSlots :
        s1 # s2 => LeaseAt(s1).object_id # LeaseAt(s2).object_id

\* C1 witness: an entry was leased, returned and leased again, and it is on a
\* live lease while another lease is live too.
C1_Witness ==
    \E s \in LeaseSlots :
        /\ CopiesIn(LeaseAt(s).object_id, hist.checkouts) >= 2
        /\ NumLive >= 2

\* C2: between operations every admitted id is in exactly one of: the
\* available queue, the active map, evicted (expired on pop, rejected on
\* return, extracted by the caller).
C2_ExactlyOnePlace ==
    Quiescent =>
        \A id \in hist.admitted :
            Cardinality({k \in {"available", "active", "evicted"} :
                \/ k = "available" /\ id \in AvailableIds
                \/ k = "active" /\ id \in active
                \/ k = "evicted" /\ id \in Evicted}) = 1

\* C3: available.len() + active.len() <= capacity in every state.
C3_WithinCapacity == Len(available) + Cardinality(active) <= capacity

\* C4: with max_active_objects = m on a fixed or queryable pool, never more
\* than m leases are live at once.
C4_MaxActiveCapsLeases ==
    (shape \in {"fixed", "queryable"} /\ IsSome(config.max_active_objects))
        => NumLive <= Get(config.max_active_objects)

\* C5: the return closure has run once for each lease that was dropped, not
\* at all for a lease that is live or was extracted, and never twice: per id,
\* checkouts = closure calls + live leases + extractions.
C5_ClosureOncePerLease ==
    \A id \in hist.admitted :
        CopiesIn(id, hist.checkouts) =
            CopiesIn(id, hist.closure_calls) + LiveOf(id)
                + (IF id \in hist.extracted THEN 1 ELSE 0)

\* C5 witness: one lease was dropped and another was extracted.
C5_Witness ==
    /\ hist.extracted # {}
    /\ \E id \in hist.admitted :
         id \notin hist.extracted /\ CopiesIn(id, hist.closure_calls) >= 1

\* C6: between operations,
\* total_retrieved - total_returned = active.len() + (leases extracted).
C6_RetrievedMinusReturned ==
    Quiescent =>
        metrics.total_retrieved - metrics.total_returned
            = Cardinality(active) + Cardinality(hist.extracted)

\* C7: as long as the callers have only checked out (no lease was returned or
\* extracted, nothing was warmed up), at most `capacity` checkouts have
\* returned a lease, whatever the number of concurrent callers.
C7_AtMostCapacityLeases ==
    (hist.closure_calls = EmptyBag /\ hist.extracted = {} /\ hist.warmed = {})
        => NumLive <= capacity

\* C8: a dynamic pool manufactures an object only for a checkout whose inner
\* fixed-pool checkout found the available queue empty.
C8_ManufactureOnlyWhenEmpty ==
    \A m \in hist.made : m[2] = "PoolEmpty"

\* C9: an extracted entry is in neither the available queue nor the active map.
C9_ExtractedLeavesPool ==
    \A id \in hist.extracted : id \notin AvailableIds /\ id \notin active

\* C10: the breaker starts Closed and admits; from Closed it opens at a
\* recorded failure that makes `threshold` consecutive failures, and only then;
\* allow_request on an open breaker whose timeout has not elapsed denies.
C10_OpensAtConsecutiveFailures ==
    /\ Get(cb).state = "Closed" /\ allow_request(Get(cb), now)
    /\ [][LET b == Get(cb)
              failed == hist'.consecutive_failures = hist.consecutive_failures + 1
          IN  /\ b.state = "Closed" =>
                    (Get(cb').state = "Open" <=>
                        (failed /\ hist'.consecutive_failures >= b.failure_threshold))
              /\ (b.state = "Open" /\ ~TimeoutElapsed(b, now) /\ ret'[1] # "none"
                    /\ ops' # ops) => ret'[1] = "false"]_vars

\* C11: while the breaker is Open, allow_request denies (and changes nothing)
\* when called no later than `timeout` after the last recorded failure; called
\* later than that it moves the breaker to HalfOpen, sets the success count to
\* zero and admits the caller.
C11_OpenDeniesUntilTimeout ==
    [][(Get(cb).state = "Open" /\ ops' # ops /\ hist'.call = "allow_request") =>
            /\ IsSome(hist.last_failure)
            /\ IF now - Get(hist.last_failure) <= Get(cb).timeout
               THEN ret'[1] = "false" /\ cb' = cb
               ELSE /\ ret'[1] = "true"
                    /\ Get(cb').state = "HalfOpen"
                    /\ Get(cb').success_count = 0]_vars

\* C11 witness: a probe made later than `timeout` after the last recorded
\* failure has just been admitted and has left the breaker half-open.
C11_Witness ==
    /\ hist.call = "allow_request" /\ ret[1] = "true"
    /\ Get(cb).state = "HalfOpen"
    /\ hist.half_open_successes = 0
    /\ IsSome(hist.last_failure) /\ now - Get(hist.last_failure) > Get(cb).timeout

\* C12: a half-open breaker admits every request; the third success recorded
\* since it became half-open closes it with both counters at zero (an earlier
\* one leaves it half-open); a recorded failure opens it again, with the
\* timeout running from that failure.
C12_HalfOpenTransitions ==
    [][(Get(cb).state = "HalfOpen" /\ ops' # ops) =>
            /\ hist'.call = "allow_request" => ret'[1] = "true" /\ cb' = cb
            /\ hist'.call = "record_success" =>
                    IF hist'.half_open_successes = HalfOpenSuccesses
                    THEN /\ Get(cb').state = "Closed"
                         /\ Get(cb').failure_count = 0
                         /\ Get(cb').success_count = 0
                    ELSE /\ hist'.half_open_successes < HalfOpenSuccesses
                         /\ Get(cb').state = "HalfOpen"
            /\ hist'.call = "record_failure" =>
                    /\ Get(cb').state = "Open"
                    /\ Get(cb').last_failure_time = Some(now)
                    /\ ~allow_request(Get(cb'), now)]_vars

\* C12 witness: the third success of a half-open breaker has just closed it.
C12_Witness ==
    /\ hist.call = "record_success"
    /\ hist.half_open_successes = HalfOpenSuccesses
    /\ Get(cb).state = "Closed"

\* C14: with the breaker enabled, between operations the breaker has recorded
\* one failure for each checkout that found the pool empty (or no match), one
\* success for each checkout that returned a lease (manufactured ones too),
\* and nothing else.
C14_OneRecordPerCheckout ==
    (IsSome(cb) /\ Quiescent) =>
        /\ hist.cb_failure = hist.found_empty
        /\ hist.cb_success = BagCardinality(hist.checkouts)

\* the entry e is older than the configured time to live
Stale(e) ==
    /\ IsSome(config.time_to_live)
    /\ e.id \in DOMAIN metadata
    /\ now - metadata[e.id].created_at > Get(config.time_to_live)

\* the call of thread t has the entry `id` in its hands
Holds(t, id) ==
    \/ local[t].entry # None /\ Get(local[t].entry).id = id
    \/ local[t].found # None /\ Get(local[t].found).id = id
    \/ \E i \in 1..Len(local[t].temp_storage) : local[t].temp_storage[i].id = id

\* the entry `id` has left the pool for good
Discarded(id) ==
    /\ id \notin AvailableIds
    /\ id \notin DOMAIN metadata
    /\ LiveOf(id) = 0
    /\ \A t \in Threads : ~Holds(t, id)

\* C15: with a time to live configured, every available entry has a creation
\* time; a step that pops an entry older than the time to live removes its
\* metadata, hands it to no caller and leaves the popping call at the head of
\* its pop loop; and an entry discarded this way is never again in the queue,
\* in a caller's hands or on a lease.
C15_ExpiredNeverLeased ==
    /\ [](IsSome(config.time_to_live) => AvailableIds \subseteq DOMAIN metadata)
    /\ [](\A id \in hist.expired : Discarded(id))
    /\ [][IF available = <<>> THEN TRUE
          ELSE \A e \in {Head(available)} :
                   (Len(available') < Len(available) /\ Stale(e)) =>
                      /\ available' = Tail(available)
                      /\ e.id \in hist'.expired
                      /\ Discarded(e.id)'
                      /\ \E t \in Threads : pc'[t] \in {"pop", "drain"}]_vars

\* C15 witness: one checkout popped an entry older than the time to live,
\* discarded it and went on to lease the younger entry behind it.
C15_Witness ==
    /\ hist.expired # {}
    /\ ops = 2
    /\ \E s \in LeaseSlots : LeaseAt(s).object_id \in hist.warmed

\* ---- A fixed pool with a single caller: the gates and the empty pool ---------

\* the single caller starts a checkout with this step
StartsCheckout == Idle(1) /\ ops' = ops + 1

\* the step leaves the pool and its counters as they are
PoolUntouched ==
    /\ available' = available
    /\ active' = active
    /\ metrics' = metrics
    /\ metadata' = metadata

\* `threshold` checkouts have found the pool empty
ThresholdFailed == IsSome(cb) /\ hist.found_empty = Get(cb).failure_threshold

\* a checkout denied by the breaker pops nothing, records no failure and
\* leaves pool_empty_events, available and active as they are
DeniedChangesNothing ==
    ret'[1] = "CircuitBreakerOpen" =>
        /\ PoolUntouched
        /\ hist'.cb_failure = hist.cb_failure
        /\ Get(cb').failure_count = Get(cb).failure_count
        /\ Get(cb').last_failure_time = Get(cb).last_failure_time

\* C13, as stated: on a fixed pool with the breaker enabled with threshold t,
\* the checkout that follows t checkouts failed with PoolEmpty fails with
\* CircuitBreakerOpen, whenever it is made; a denied checkout changes nothing.
C13_NextCheckoutDenied ==
    [][(shape = "fixed" /\ IsSome(cb) /\ StartsCheckout) =>
            /\ ThresholdFailed => ret'[1] = "CircuitBreakerOpen"
            /\ DeniedChangesNothing]_vars

\* C13, amended: the same for a checkout made no later than the breaker's
\* timeout after the last of the t failures.
C13_NextCheckoutDeniedInTime ==
    [][(shape = "fixed" /\ IsSome(cb) /\ StartsCheckout) =>
            /\ (ThresholdFailed /\ now - Get(hist.last_failure) <= Get(cb).timeout)
                    => ret'[1] = "CircuitBreakerOpen"
            /\ DeniedChangesNothing]_vars

\* C13 witness: with threshold 2, two checkouts found the pool empty and the
\* next one was denied by the breaker.
C13_Witness ==
    /\ shape = "fixed" /\ Sequential /\ IsSome(cb)
    /\ Get(cb).failure_threshold = 2
    /\ hist.found_empty = 2
    /\ ret[1] = "CircuitBreakerOpen"

\* a checkout of the single caller returns with this step
CheckoutReturns ==
    /\ pc'[1] = "idle"
    /\ \/ StartsCheckout
       \/ pc[1] \in {"check_cb", "check_max", "pop", "mark", "rec_succ", "rec_fail"}

\* the ids of the entries of a queue
IdsOf(q) == {q[i].id : i \in 1..Len(q)}

\* in the snapshot b the queue was not empty and each of its entries was
\* older than the time to live
AllExpiredAt(b) ==
    /\ IsSome(config.time_to_live)
    /\ b.available # <<>>
    /\ \A id \in IdsOf(b.available) :
          /\ id \in DOMAIN b.metadata
          /\ b.now - b.metadata[id].created_at > Get(config.time_to_live)

\* the checkout that began in the snapshot b discarded every entry of the
\* queue and failed with PoolEmpty, counted once
DrainedToEmpty(b) ==
    /\ ret'[1] = "PoolEmpty"
    /\ available' = <<>>
    /\ IdsOf(b.available) \subseteq hist'.expired
    /\ metrics'.pool_empty_events = b.metrics.pool_empty_events + 1
    /\ metrics'.total_retrieved = b.metrics.total_retrieved
    /\ active' = b.active
    /\ hist'.cb_failure = b.hist.cb_failure + (IF IsSome(cb) THEN 1 ELSE 0)

\* C16, as stated: a checkout of a fixed pool that begins when every available
\* entry is expired discards them all and returns PoolEmpty, with one
\* pool_empty_event, one breaker failure and an empty queue.
C16_AllExpiredGivesEmpty ==
    [][(shape = "fixed" /\ Sequential /\ CheckoutReturns) =>
            \A b \in begin'[1] : AllExpiredAt(b) => DrainedToEmpty(b)]_vars

\* C16, amended: the same for a checkout that the circuit breaker and the
\* max-active check let through.
C16_AdmittedAllExpiredGivesEmpty ==
    [][(shape = "fixed" /\ Sequential /\ CheckoutReturns) =>
            \A b \in begin'[1] :
                (/\ AllExpiredAt(b)
                 /\ ret'[1] \notin {"CircuitBreakerOpen", "MaxActiveObjectsReached"})
                    => DrainedToEmpty(b)]_vars

\* C16 witness: a checkout that began with two expired entries in the queue
\* has returned PoolEmpty and recorded a breaker failure.
C16_Witness ==
    /\ shape = "fixed" /\ Idle(1) /\ IsSome(cb)
    /\ ret[1] = "PoolEmpty"
    /\ available = <<>>
    /\ \E b \in begin[1] : AllExpiredAt(b) /\ Len(b.available) = 2

\* the validator configured for returns rejects the value of the lease l
Rejects(l) ==
    /\ config.validate_on_return
    /\ IsSome(config.validation_function)
    /\ IsSome(l.value)
    /\ ~validate(Get(config.validation_function), Get(l.value))

\* thread t drops its i-th lease with this step (it does not unwrap it)
Drops(t, i) ==
    /\ i \in 1..Len(leases[t])
    /\ leases'[t] = RemoveAt(leases[t], i)
    /\ hist'.extracted = hist.extracted

\* C17: dropping a lease whose value the validator rejects does not push the
\* entry, clears its id from the active map and the eviction metadata, adds
\* one to validation_failures and leaves total_returned; the entry never
\* comes back; and when an always-false validator has seen as many
\* checkout-and-drop cycles as the pool had objects, the queue and the active
\* map are empty.
C17_RejectedReturnRemoves ==
    /\ [](\A id \in hist.rejected : Discarded(id) /\ id \notin active)
    /\ []((/\ config.validation_function = Some("never")
            /\ \A t \in Threads : pc[t] \in {"idle", "parked"}
            /\ NumLive = 0 /\ hist.extracted = {}
            /\ BagCardinality(hist.closure_calls) = Cardinality(hist.admitted))
           => (available = <<>> /\ active = {}))
    /\ [][\A t \in Threads : \A i \in 1..Len(leases[t]) :
            \A l \in {leases[t][i]} :
              (Drops(t, i) /\ Rejects(l)) =>
                  /\ available' = available
                  /\ pc'[t] = "idle"
                  /\ l.object_id \in hist'.rejected
                  /\ l.object_id \notin active'
                  /\ l.object_id \notin DOMAIN metadata'
                  /\ metrics'.validation_failures = metrics.validation_failures + 1
                  /\ metrics'.total_returned = metrics.total_returned]_vars

\* C17 witness: a pool of two objects with an always-false validator (and a
\* time to live, so that the entries have metadata) after two
\* checkout-and-drop cycles.
C17_Witness ==
    /\ config.validation_function = Some("never")
    /\ IsSome(config.time_to_live)
    /\ Cardinality(hist.admitted) = 2
    /\ BagCardinality(hist.closure_calls) = 2
    /\ metrics.validation_failures = 2
    /\ available = <<>> /\ active = {}

Dropped(h) == BagCardinality(h.closure_calls)
Accepted(h) == BagCardinality(h.closure_calls) - Cardinality(h.rejected)

\* the checkout that began in the snapshot b found the queue empty: it
\* returns PoolEmpty, counts one pool_empty_event and leaves the queue, the
\* active map, total_retrieved and total_returned as they were
FoundEmpty(b) ==
    (b.available = <<>>
        /\ ret'[1] \notin {"CircuitBreakerOpen", "MaxActiveObjectsReached"}) =>
            /\ ret'[1] = "PoolEmpty"
            /\ metrics'.pool_empty_events = b.metrics.pool_empty_events + 1
            /\ available' = b.available
            /\ active' = b.active
            /\ metrics'.total_retrieved = b.metrics.total_retrieved
            /\ metrics'.total_returned = b.metrics.total_returned

\* C19, as stated: a fixed-pool checkout that finds the queue empty returns
\* PoolEmpty, counted once, and changes nothing else; and the checkout that
\* follows it, once a live lease has been dropped, returns a lease.
C19_EmptyThenLeaseAgain ==
    [][(shape = "fixed" /\ Sequential /\ CheckoutReturns) =>
            \A b \in begin'[1] :
                /\ FoundEmpty(b)
                /\ (b.last = "PoolEmpty" /\ Dropped(b.hist) > Dropped(b.hist_before))
                        => ret'[1] = "Ok"]_vars

\* C19, amended: the checkout that follows returns a lease once a live lease
\* has been dropped and its entry pushed back (no validator rejected it),
\* unless the circuit breaker denies the checkout or the entries it pops
\* have expired.
C19_EmptyThenLeaseAfterReturn ==
    [][(shape = "fixed" /\ Sequential /\ CheckoutReturns) =>
            \A b \in begin'[1] :
                /\ FoundEmpty(b)
                /\ (b.last = "PoolEmpty" /\ Accepted(b.hist) > Accepted(b.hist_before))
                        => \/ ret'[1] = "Ok"
                           \/ ret'[1] = "CircuitBreakerOpen"
                           \/ /\ ret'[1] = "PoolEmpty"
                              /\ IsSome(config.time_to_live)
                              /\ b.available # <<>>
                              /\ IdsOf(b.available) \subseteq hist'.expired]_vars

\* C19 witness: a checkout failed with PoolEmpty, a lease was dropped and the
\* next checkout has returned a lease.
C19_Witness ==
    /\ shape = "fixed" /\ Idle(1) /\ ret[1] = "Ok"
    /\ \E b \in begin[1] :
          /\ b.last = "PoolEmpty"
          /\ Accepted(b.hist) > Accepted(b.hist_before)
          /\ b.hist_before.found_empty < b.hist.found_empty

\* C20: on a fixed pool built with N objects and the default configuration,
\* whenever j checkouts have each returned a lease and each lease has been
\* dropped (no checkout failed, no lease is live or was extracted), the queue
\* holds N entries again, the active map is empty and
\* total_retrieved = total_returned = j; this covers j = k * N for every k and
\* the state after each single cycle.
C20_CyclesRestorePool ==
    (/\ shape = "fixed" /\ Sequential /\ Idle(1)
     /\ config = PoolConfiguration_default(config.max_pool_size)
     /\ hist.found_empty = 0 /\ hist.extracted = {}
     /\ NumLive = 0)
        => /\ Len(available) = Cardinality(hist.admitted)
           /\ active = {}
           /\ metrics.total_retrieved = BagCardinality(hist.checkouts)
           /\ metrics.total_returned = BagCardinality(hist.checkouts)
           /\ Dropped(hist) = BagCardinality(hist.checkouts)

\* C20 witness: N = 2 and k = 2: four checkout-then-drop cycles are done.
C20_Witness ==
    /\ shape = "fixed" /\ Sequential /\ Idle(1)
    /\ config = PoolConfiguration_default(config.max_pool_size)
    /\ Cardinality(hist.admitted) = 2
    /\ hist.found_empty = 0 /\ hist.extracted = {} /\ NumLive = 0
    /\ BagCardinality(hist.checkouts) = 4
    /\ metrics.total_returned = 4
    /\ Len(available) = 2

\* ---- Concurrent callers of a fixed pool with the default configuration -------

DefaultFixed ==
    /\ shape = "fixed"
    /\ ~Sequential
    /\ config = PoolConfiguration_default(config.max_pool_size)

\* C21: on a fixed pool of N objects with the default configuration, under
\* every interleaving of checkouts and drops of the leases obtained, once no
\* call is in flight and every lease has been dropped, available.len() = N
\* and the active map is empty.
C21_AllDroppedRestoresPool ==
    (DefaultFixed /\ Quiescent /\ NumLive = 0 /\ hist.extracted = {})
        => /\ Len(available) = Cardinality(hist.admitted)
           /\ active = {}

\* C21 witness: two objects, three checkouts, the last one of each thread
\* successful, and every lease dropped since.
C21_Witness ==
    /\ DefaultFixed /\ Quiescent /\ NumLive = 0 /\ hist.extracted = {}
    /\ Cardinality(hist.admitted) = 2
    /\ BagCardinality(hist.checkouts) = 3
    /\ \A t \in Threads : ret[t] = "Ok"
    /\ Len(available) = 2

QueryReturns ==
    /\ shape = "queryable" /\ Sequential
    /\ pc'[1] = "idle"
    /\ \/ StartsCheckout
       \/ pc[1] \in {"check_cb", "check_max", "drain", "refill", "mark",
                     "rec_succ", "rec_fail"}

\* the call got past check_circuit_breaker and check_max_active
PastGates == ret'[1] \notin {"CircuitBreakerOpen", "MaxActiveObjectsReached"}

\* the entries of the queue of the snapshot b that were not expired, in pop
\* order
Live(b) ==
    SelectSeq(b.available,
              LAMBDA e : ~is_expired(b.metadata, policy, e.id, b.now))

\* those of them whose value satisfies the predicate |x| *x == q
Matching(b, q) == SelectSeq(Live(b), LAMBDA e : e.value = q)

Without(q, id) == SelectSeq(q, LAMBDA e : e.id # id)

\* C23: a queryable checkout that drains the queue (no time passing meanwhile)
\* returns a lease on the first non-expired entry, in pop order, whose value
\* satisfies the predicate, marks it active and pushes every other non-expired
\* entry back; when no such entry exists it returns NoMatchFound.  With
\* [1,2,3,2,4] two checkouts for 2 get two different entries and a third gets
\* NoMatchFound (C23_Witness).
C23_FirstMatchLeased ==
    [][(QueryReturns /\ PastGates) =>
        \A b \in begin'[1] : b.now = now =>
            LET m == Matching(b, local[1].query)
            IN  IF m = <<>>
                THEN ret'[1] = "NoMatchFound"
                ELSE /\ ret'[1] = "Ok"
                     /\ leases'[1] = Append(leases[1],
                            PooledObject_new(Head(m).value, Head(m).id))
                     /\ Head(m).id \in active'
                     /\ available' = Without(Live(b), Head(m).id)]_vars

\* C23 witness: the pool [1,2,3,2,4]; two leases on different entries of value
\* 2 are held, the other three entries are back in the queue and the third
\* checkout has returned NoMatchFound.
C23_Witness ==
    /\ shape = "queryable" /\ Sequential /\ Idle(1)
    /\ Cardinality(hist.admitted) = Len(MultipleMatches)
    /\ Len(leases[1]) = 2
    /\ leases[1][1].value = Some(2) /\ leases[1][2].value = Some(2)
    /\ leases[1][1].object_id # leases[1][2].object_id
    /\ [i \in 1..Len(available) |-> available[i].value] = <<1, 3, 4>>
    /\ ret[1] = "NoMatchFound"
    /\ BagCardinality(hist.checkouts) = 2

\* the predicates the returning call may have been given: the one it drained
\* the queue with, or any at all when a gate turned it away before that
CallQueries == IF PastGates THEN {local[1].query} ELSE Values

\* the non-expired entries of the queue after the step
LiveAfter ==
    {available'[i] : i \in {k \in 1..Len(available') :
                              ~is_expired(metadata', policy, available'[k].id, now')}}

\* the call that began in the snapshot b failed with NoMatchFound, with one
\* breaker failure and nothing else changed
NoMatchOutcome(b) ==
    /\ ret'[1] = "NoMatchFound"
    /\ hist'.cb_failure = b.hist.cb_failure + (IF IsSome(cb) THEN 1 ELSE 0)
    /\ LiveAfter = {Live(b)[i] : i \in 1..Len(Live(b))}
    /\ active' = b.active
    /\ metrics'.total_retrieved = b.metrics.total_retrieved
    /\ metrics'.pool_empty_events = b.metrics.pool_empty_events

\* C24, as stated: a queryable checkout that begins when no available
\* (non-expired) entry satisfies its predicate, the empty queue included,
\* returns NoMatchFound, records one breaker failure and leaves the set of
\* available non-expired entries, the active map, total_retrieved and
\* pool_empty_events unchanged (the clock not advancing during the call).
C24_NoMatchChangesNothing ==
    [][QueryReturns =>
        \A b \in begin'[1] : \A q \in CallQueries :
            (b.now = now /\ Matching(b, q) = <<>>) => NoMatchOutcome(b)]_vars

\* C24, amended: the same for a checkout that the circuit breaker and the
\* max-active check let through.
C24_AdmittedNoMatchChangesNothing ==
    [][(QueryReturns /\ PastGates) =>
        \A b \in begin'[1] : \A q \in CallQueries :
            (b.now = now /\ Matching(b, q) = <<>>) => NoMatchOutcome(b)]_vars

\* C24 witness: with a breaker configured and one lease held, a checkout that
\* began with two entries in the queue, none matching, has returned
\* NoMatchFound; both entries are back and one failure was recorded.
C24_Witness ==
    /\ shape = "queryable" /\ Sequential /\ Idle(1) /\ IsSome(cb)
    /\ ret[1] = "NoMatchFound"
    /\ Len(leases[1]) = 1
    /\ Len(available) = 2
    /\ \E b \in begin[1] :
          /\ b.available = available
          /\ hist.cb_failure = b.hist.cb_failure + 1

\* ---- Dynamic checkouts --------------------------------------------------------

\* the single caller's DynamicObjectPool::get_object returns in this step
DynReturns ==
    /\ shape = "dynamic" /\ Sequential
    /\ pc[1] \in {"mark", "rec_succ", "dyn_check", "dyn_make"}
    /\ pc'[1] = "idle"

\* in the snapshot b a gate of the fixed checkout turns the call away
GateDenies(b) ==
    \/ IsSome(b.cb) /\ ~allow_request(Get(b.cb), b.now)
    \/ /\ IsSome(config.max_active_objects)
       /\ Cardinality(b.active) >= Get(config.max_active_objects)

\* the fixed checkout attempted in the snapshot b yields no entry
NoEntry(b) == GateDenies(b) \/ Live(b) = <<>>

\* the call that began in b has returned a lease on a manufactured object
Manufactured(b) ==
    /\ ret'[1] = "Ok"
    /\ leases'[1] = Append(leases[1], PooledObject_new(factory, b.next_id))
    /\ b.next_id \notin b.hist.admitted \cup IdsOf(b.available) \cup b.active
    /\ policy.kind # "None" => b.next_id \in DOMAIN metadata'
    /\ active' = b.active \cup {b.next_id}
    /\ metrics'.total_retrieved = b.metrics.total_retrieved + 1

PoolFullOutcome(b) ==
    /\ ret'[1] = "PoolFull"
    /\ available' = b.available
    /\ active' = b.active

\* C25: a dynamic checkout first attempts a fixed checkout; when that yields an
\* entry the lease is on it; when it yields none and active.len() < capacity
\* the call manufactures an object (fresh id, tracked, active, counted in
\* total_retrieved) and leases it; when it yields none and
\* active.len() >= capacity the call returns PoolFull and changes neither
\* available nor active.
C25_ManufactureOrPoolFull ==
    [][DynReturns =>
        \A b \in begin'[1] : b.now = now =>
            IF ~NoEntry(b)
            THEN /\ ret'[1] = "Ok"
                 /\ leases'[1] = Append(leases[1],
                        PooledObject_new(Head(Live(b)).value, Head(Live(b)).id))
            ELSE IF Cardinality(b.active) < capacity
                 THEN Manufactured(b)
                 ELSE PoolFullOutcome(b)]_vars

\* ---- Warmup -------------------------------------------------------------------

\* the single caller's warmup(count) returns in this step
WarmupReturns ==
    /\ shape = "dynamic" /\ Sequential
    /\ pc'[1] = "idle"
    /\ (Idle(1) /\ ops' = ops + 1) \/ pc[1] = "warmup"

\* the entries warmup pushes when it begins in the snapshot b and k pushes
\* succeed: factory values under the next k ids
WarmedUp(b, k) == [i \in 1..k |-> [value |-> factory, id |-> b.next_id + i - 1]]

\* C26: warmup(n) (warmup_async(n) runs the same loop) manufactures, tracks and
\* pushes at most min(n, capacity) entries and leaves active unchanged; when it
\* begins with nothing available and nothing leased, available_count
\* afterwards is min(n, capacity).
C26_WarmupFillsToMin ==
    [][WarmupReturns =>
        \A b \in begin'[1] :
            LET k == Min(hist'.warmup_count, capacity)
                pushed == Len(available') - Len(b.available)
            IN  /\ ret'[1] = "Ok"
                /\ hist'.factory_calls - b.hist.factory_calls <= k
                /\ Cardinality(DOMAIN metadata' \ DOMAIN b.metadata) <= k
                /\ pushed \in 0..k
                /\ available' = b.available \o WarmedUp(b, pushed)
                /\ policy.kind # "None" =>
                      IdsOf(WarmedUp(b, pushed)) \subseteq DOMAIN metadata'
                /\ active' = b.active
                /\ (b.available = <<>> /\ leases[1] = <<>>) => pushed = k]_vars

\* C26 witness: warmup(2) on a pool of capacity 2 with nothing available and
\* nothing leased has returned and two entries are available.
C26_Witness ==
    /\ shape = "dynamic" /\ Sequential /\ Idle(1)
    /\ ret[1] = "Ok"
    /\ hist.warmup_count = 2 /\ capacity = 2
    /\ leases[1] = <<>>
    /\ \E b \in begin[1] :
          /\ b.available = <<>> /\ b.active = {}
          /\ available = WarmedUp(b, 2)

\* ---- Asynchronous checkouts ---------------------------------------------------

\* the ids some thread holds a lease on
LeasedIds == {LeaseAt(s).object_id : s \in LeaseSlots}

\* the ids of the entries a thread other than 1 has marked active and not
\* yet handed to its caller
InHand ==
    {e.id : e \in UNION {local[u].entry : u \in {v \in Threads \ {1} : pc[v] = "rec_succ"}}}

\* the asynchronous checkout of thread 1 ends in this step with nothing
\* claimed: no new lease, no popped entry in hand, no id marked active
ClaimedNothing ==
    /\ leases' = leases
    /\ local[1].entry = None
    /\ active' = active
    /\ active \subseteq LeasedIds \cup InHand

Abs(x) == IF x < 0 THEN 0 - x ELSE x

\* C28: the health status of a active, v available and capacity c reports the
\* utilization a/c (the nearest floating-point number; 0 when c = 0), is
\* unhealthy exactly when a/c > 0.9, that is when 10*a > 9*c, and carries the
\* "Pool is empty" warning exactly when v = 0 and c > 0, which alone does not
\* make it unhealthy.
C28_HealthSnapshot ==
    (shape = "health" /\ ops = 1) =>
        LET v == hist.available
            a == hist.active
            c == hist.capacity
            u == health.utilization
        IN  /\ c = 0 => u.m = 0
            /\ c > 0 => 2 * Abs(u.m * c - a * Pow2(u.k)) <= c
            /\ ~health.is_healthy <=> (c > 0 /\ 10 * a > 9 * c)
            /\ (\E i \in 1..Len(health.warnings) : health.warnings[i] = "Pool is empty")
                  <=> (v = 0 /\ c > 0)
            /\ health.warning_count = Len(health.warnings)
            /\ <<health.available_objects, health.active_objects,
                  health.total_capacity>> = <<v, a, c>>

\* C28 witness: 9 of 10 entries leased and none available: the status is
\* healthy, at the edge of 0.9, with the "Pool is empty" warning alone.
C28_Witness ==
    /\ shape = "health" /\ ops = 1
    /\ hist = [available |-> 0, active |-> 9, capacity |-> 10]
    /\ health.is_healthy
    /\ health.warnings = <<"Pool is empty">>

\* ---- Returns ------------------------------------------------------------------

\* thread t's return closure pushes its entry in this step
Returns(t) == pc[t] = "ret_push" /\ pc'[t] = "idle"

\* C29: in every pool shape the push of a returned entry succeeds: the queue
\* is not full when a lease returns and the return counted in total_returned
\* has put its entry back into available.
C29_ReturnPushSucceeds ==
    [][\A t \in Threads : Returns(t) =>
            /\ Len(available) < capacity
            /\ available' = Append(available, Get(local[t].entry))
            /\ metrics'.total_returned = metrics.total_returned + 1]_vars

\* ---- PoolEmpty under concurrent callers ---------------------------------------

\* thread t's checkout finds the queue empty in this step
FindsEmpty(t) == At(t, "pop") /\ available = <<>> /\ hist'.found_empty = hist.found_empty + 1

\* the ids of the entries in the middle of being returned: the closure has
\* removed the id from active and not yet pushed the entry
Returning == {e.id : e \in UNION {local[u].entry : u \in {v \in Threads : pc[v] = "ret_push"}}}

\* the ids of the entries a checkout has popped and not yet handed to its
\* caller
HandingOut ==
    {e.id : e \in UNION {local[u].entry :
                            u \in {v \in Threads : pc[v] \in {"mark", "rec_succ"}}}}

\* the checkouts that got an entry, those still handing it out included
Successes == BagCardinality(hist.checkouts) + Cardinality(HandingOut)

\* C30, as stated: on a fixed pool with the default configuration a checkout
\* fails with PoolEmpty only when every entry is leased or in the middle of
\* being returned.
C30_EmptyOnlyWhenAllOut ==
    [][\A t \in Threads : (DefaultFixed /\ FindsEmpty(t)) =>
            hist.admitted \subseteq LeasedIds \cup Returning]_vars

\* C30, amended: ... only when every entry is leased, being handed out by a
\* concurrent checkout, in the middle of being returned, or was extracted by
\* its caller; hence, when no lease is extracted, once a checkout has failed
\* at least N checkouts have succeeded.
C30_EmptyOnlyWhenAllTaken ==
    /\ [][\A t \in Threads : (DefaultFixed /\ FindsEmpty(t)) =>
            hist.admitted \subseteq
                LeasedIds \cup HandingOut \cup Returning \cup hist.extracted]_vars
    /\ []((DefaultFixed /\ hist.extracted = {} /\ hist.found_empty > 0)
            => Successes >= Cardinality(hist.admitted))

\* C30 witness: on a pool of two entries three checkouts were made and the
\* leases dropped: one found the queue empty, two succeeded.
C30_Witness ==
    /\ DefaultFixed /\ Quiescent
    /\ Cardinality(hist.admitted) = 2
    /\ hist.found_empty = 1
    /\ BagCardinality(hist.checkouts) = 2
    /\ hist.extracted = {}
    /\ NumLive = 0
    /\ \E t \in Threads : ret[t] = "PoolEmpty"

\* ---- Drain and refill under concurrent callers -------------------------------

\* the places of the queue that hold the id
InQueue(id) == {i \in 1..Len(available) : available[i].id = id}

\* the places in the hands of a caller that hold the id: an item of its
\* temp_storage, or its found / popped / returning entry
InTemp(id) ==
    {x \in Threads \X (1..Cardinality(hist.admitted)) :
        /\ x[2] <= Len(local[x[1]].temp_storage)
        /\ local[x[1]].temp_storage[x[2]].id = id}
InEntry(id) ==
    {t \in Threads : \E e \in local[t].found \cup local[t].entry : e.id = id}

\* how many times the id is found in the queue, in a caller's hands, on a
\* live lease, or among the destroyed (expired, rejected, extracted)
Occurrences(id) ==
    Cardinality(InQueue(id)) + Cardinality(InTemp(id)) + Cardinality(InEntry(id))
        + LiveOf(id)
        + Cardinality({k \in {"expired", "rejected", "extracted"} :
                          id \in hist[k]})

\* C31: under any interleaving of queryable checkouts and drops, every entry
\* is in exactly one place (the queue, the hands of one draining or returning
\* caller, one live lease, or destroyed: expired, rejected, extracted), no
\* push of the refill fails, and once all calls have finished and all leases
\* are dropped, with no eviction and no validation, available_count is the
\* initial object count.
C31_DrainRefillKeepsEntries ==
    shape = "queryable" =>
        /\ \A id \in hist.admitted : Occurrences(id) = 1
        /\ hist.push_failed = {}
        /\ (/\ Quiescent /\ NumLive = 0 /\ hist.extracted = {}
            /\ policy.kind = "None" /\ ~config.validate_on_return)
              => Len(available) = Cardinality(hist.admitted)

\* C31 witness: two callers drain the queue of a queryable pool at the same
\* time, each holding one of its two entries in its temp_storage.
C31_Witness ==
    /\ shape = "queryable" /\ ~Sequential
    /\ available = <<>>
    /\ \A t \in Threads : pc[t] \in {"drain", "refill"} /\ Len(local[t].temp_storage) = 1

\* ---- Identities -----------------------------------------------------------------

\* the places that hold an entry of the id: the queue, a caller's hands, a
\* live lease
Holders(id) ==
    Cardinality(InQueue(id)) + Cardinality(InTemp(id)) + Cardinality(InEntry(id))
        + LiveOf(id)

\* C32: the initial objects have the ids 0..n-1, the counter starts at
\* capacity >= n and never decreases, every entry admitted later (manufactured
\* or warmed up) takes the value of the counter, which is above every id
\* admitted so far, and advances it, so no two entries ever share an id, also
\* under concurrent dynamic checkouts and warmups.
C32_FreshIds ==
    /\ [](shape \in {"fixed", "queryable", "dynamic"} =>
            /\ next_id >= capacity
            /\ \A id \in hist.admitted : id >= 0 /\ id < next_id
            /\ \A id \in hist.admitted : Holders(id) <= 1
            /\ Cardinality(hist.made) + Cardinality(hist.warmed)
                  = Cardinality({id \in hist.admitted : id >= capacity}))
    /\ [][(shape \in {"fixed", "queryable", "dynamic"}) =>
            (/\ next_id' >= next_id
             /\ hist.admitted \subseteq hist'.admitted
             /\ \A id \in hist'.admitted \ hist.admitted :
                   (id = next_id /\ next_id' > next_id))]_vars

\* C32 witness: two concurrent dynamic checkouts have each manufactured an
\* object while a warmup pushed another: three ids above the initial one.
C32_Witness ==
    /\ shape = "dynamic" /\ ~Sequential
    /\ Cardinality(hist.made) + Cardinality(hist.warmed) = 3
    /\ hist.made # {} /\ hist.warmed # {}
    /\ Cardinality(hist.admitted) >= 3

\* ---- Pools with an idle timeout ----------------------------------------------
\* Two threads on a pool of each shape whose configuration has an idle
\* timeout, alone, with a time to live, or with validation on return.

IdlePolicies(c) ==
    {with_idle_timeout(c, 1), with_ttl(with_idle_timeout(c, 0), 1),
     with_idle_timeout(with_validation(c, "positive"), 1)}

IdleInit ==
    \E sh \in {"fixed", "queryable", "dynamic"} : \E s \in Sizes :
        \E objects \in Objects(sh, s.n) :
            \E c \in IdlePolicies(PoolConfiguration_default(s.max_pool_size)) :
                /\ sh # "dynamic" => s.n > 0
                /\ ObjectPool_new(sh, objects, c)
                /\ pc = [t \in Threads |-> "idle"]

IdleStep(t) ==
    \/ pop(t)
    \/ drain(t)
    \/ refill(t)
    \/ mark(t)
    \/ dyn_check(t)
    \/ dyn_make(t)
    \/ warmup(t)
    \/ drop(t)
    \/ ret_push(t)
    \/ unwrap(t)
    \/ deref_mut(t)

IdleNext == (\E t \in Threads : IdleStep(t)) \/ Tick

IdleSpec == IdleInit /\ [][IdleNext]_vars

\* how long the entry has been unused, and how long it has existed
IdleFor(id) == now - metadata[id].last_used
Aged(id) == now - metadata[id].created_at

\* a step that pops the head of the queue
Pops == available # <<>> /\ available' = Tail(available)

\* C33: with an idle timeout, last_used of an entry never decreases, is set to
\* the present time by each checkout and by each return that keeps the entry,
\* and the entry popped from the queue is discarded exactly when it has been
\* idle for longer than the idle timeout (or, under a combined policy, has
\* outlived its time to live): every entry in the queue has its metadata.
C33_IdleTimeout ==
    /\ [](IsSome(config.idle_timeout) =>
            \A i \in 1..Len(available) :
                /\ available[i].id \in DOMAIN metadata
                /\ metadata[available[i].id].last_used <= now)
    /\ [][(IsSome(config.idle_timeout)) =>
            (/\ \A id \in DOMAIN metadata \cap DOMAIN metadata' :
                    metadata'[id].last_used >= metadata[id].last_used
             /\ \A t \in Threads :
                   /\ (pc[t] = "mark" /\ pc'[t] # "mark") =>
                        \A e \in {Get(local[t].entry)} :
                            /\ e.id \in DOMAIN metadata'
                            /\ metadata'[e.id].last_used = now
                   /\ (pc[t] = "idle" /\ pc'[t] = "ret_push") =>
                        \A e \in {Get(local'[t].entry)} :
                            /\ e.id \in DOMAIN metadata'
                            /\ metadata'[e.id].last_used = now
             /\ Pops =>
                   \A e \in {Head(available)} :
                       /\ (e.id \in hist'.expired /\ e.id \notin DOMAIN metadata')
                            <=> \/ IdleFor(e.id) > Get(config.idle_timeout)
                                \/ /\ IsSome(config.time_to_live)
                                   /\ Aged(e.id) > Get(config.time_to_live)
                       /\ e.id \notin hist'.expired
                            => \E t \in Threads :
                                 \/ local'[t].entry = Some(e)
                                 \/ local'[t].found = Some(e)
                                 \/ /\ local'[t].temp_storage # <<>>
                                    /\ local'[t].temp_storage[Len(local'[t].temp_storage)] = e)]_vars

\* An entry returned one time unit ago is leased again while an entry idle
\* for two is discarded, under an idle timeout of one.
C33_Witness ==
    /\ policy.kind = "IdleTimeout"
    /\ now = 2
    /\ hist.expired # {}
    /\ \E t \in Threads : \E i \in 1..Len(leases[t]) :
          LET id == leases[t][i].object_id
          IN  /\ CopiesIn(id, hist.checkouts) = 2
              /\ id \in DOMAIN metadata
              /\ metadata[id].last_used = 2

\* the available entries that are expired at time t
ExpiredAt(t) == {i \in 1..Len(available) : is_expired(metadata, policy, available[i].id, t)}

\* thread t's return closure has just kept the entry: it goes on to push it
Keeps(t) == pc[t] = "idle" /\ pc'[t] = "ret_push"

\* C34: eviction is lazy.  A step in which only time passes leaves the queue,
\* the active set and the metadata as they are; an entry leaves the queue only
\* as the head popped by a checkout, so an expired entry stays and is counted
\* until then; the return closure rejects an entry only when validation fails,
\* however old the entry is, and pushes an expired entry like any other when
\* the queue has room.
C34_LazyEviction ==
    [][(policy.kind # "None") =>
        (/\ (now' # now) =>
                /\ available' = available
                /\ active' = active
                /\ metadata' = metadata
         /\ (Len(available') < Len(available)) => Pops
         /\ (~Pops) => \A i \in 1..Len(available) : available'[i] = available[i]
         /\ Pops => \A i \in 2..Len(available) : available'[i - 1] = available[i]
         /\ \A t \in Threads :
               /\ (pc[t] = "idle" /\ Len(leases'[t]) < Len(leases[t])) =>
                     /\ hist'.expired = hist.expired
                     /\ \A id \in hist'.rejected \ hist.rejected :
                           /\ config.validate_on_return
                           /\ \E i \in 1..Len(leases[t]) :
                                 /\ leases[t][i].object_id = id
                                 /\ IsSome(leases[t][i].value)
                                 /\ ~validate(Get(config.validation_function),
                                              Get(leases[t][i].value))
                     /\ (~config.validate_on_return) => Keeps(t) \/ pc'[t] = "idle"
               /\ (pc[t] = "ret_push" /\ pc'[t] = "idle") =>
                     /\ hist'.expired = hist.expired
                     /\ metadata' = metadata
                     /\ push_ok(available, capacity) =>
                           available' = Append(available, Get(local[t].entry)))]_vars

\* An entry that was returned after it had outlived its time to live is in
\* the queue, expired and counted.
C34_Witness ==
    /\ policy.kind # "None"
    /\ \E i \in ExpiredAt(now) :
          /\ CopiesIn(available[i].id, hist.closure_calls) >= 1
          /\ metadata[available[i].id].last_used = now
          /\ metadata[available[i].id].created_at = 0
          /\ now = MaxTime

\* C35: under an eviction policy, whenever no call is under way the ids with
\* metadata are the ids that are available or on a live lease; without a
\* policy there is no metadata and nothing is ever found expired.
C35_MetadataTracksEntries ==
    /\ (policy.kind # "None" /\ Quiescent) =>
            DOMAIN metadata = AvailableIds \cup LeasedIds
    /\ (policy.kind = "None") => (DOMAIN metadata = {} /\ hist.expired = {})

\* the ids of the objects made by DynamicObjectPool::get_object
MadeIds == {m[1] : m \in hist.made}

\* C36: the factory is called once in the step that manufactures a lease and
\* once in the warmup turn that admits an entry, and otherwise only in a
\* warmup turn whose push fails; a checkout whose fixed attempt yields an
\* entry returns a lease on it without a factory call; and the return of a
\* manufactured entry appends it to the queue, where the next checkout finds it.
C36_FactoryOncePerEntry ==
    [][(shape = "dynamic" /\ Sequential) =>
        (/\ \/ hist'.factory_calls - hist.factory_calls
                    = Cardinality(MadeIds' \ MadeIds)
                       + Cardinality(hist'.warmed \ hist.warmed)
            \/ /\ hist'.factory_calls = hist.factory_calls + 1
               /\ MadeIds' = MadeIds /\ hist'.warmed = hist.warmed
               /\ WarmupReturns /\ ~push_ok(available, capacity)
         /\ Cardinality(MadeIds' \ MadeIds) + Cardinality(hist'.warmed \ hist.warmed) <= 1
         /\ DynReturns =>
               \A b \in begin'[1] : (b.now = now /\ ~NoEntry(b)) =>
                   /\ ret'[1] = "Ok"
                   /\ hist'.factory_calls = b.hist.factory_calls
                   /\ leases'[1] = Append(leases[1],
                          PooledObject_new(Head(Live(b)).value, Head(Live(b)).id))
         /\ (pc[1] = "ret_push" /\ pc'[1] = "idle"
                /\ Get(local[1].entry).id \in MadeIds) =>
               available' = Append(available, Get(local[1].entry)))]_vars

\* the call that began in the snapshot b is the first the pool has seen
Fresh(b) == b.last = "none" /\ b.hist.checkouts = EmptyBag /\ b.hist.found_empty = 0

\* C37: with a single caller a fixed pool hands out in FIFO order.  A checkout
\* that returns a lease returns the entry of the queue, as it was when the
\* call began, that has only discarded (expired) entries in front of it, and
\* leaves the entries behind it in their order; the first checkout on a new
\* pool, when it gets past the gates and nothing has expired, returns the
\* first initial object; and a return appends the entry behind all the
\* entries available.
C37_Fifo ==
    [][(shape = "fixed" /\ Sequential) =>
        (/\ CheckoutReturns =>
               \A b \in begin'[1] :
                  /\ (ret'[1] = "Ok") =>
                        \E i \in 1..Len(b.available) :
                           /\ leases'[1] = Append(leases[1],
                                 PooledObject_new(b.available[i].value, b.available[i].id))
                           /\ \A j \in 1..(i - 1) : b.available[j].id \in hist'.expired
                           /\ available' = SubSeq(b.available, i + 1, Len(b.available))
                  /\ (Fresh(b) /\ PastGates /\ hist'.expired = {}) =>
                        /\ ret'[1] = "Ok"
                        /\ leases'[1] = <<PooledObject_new(b.available[1].value, 0)>>
         /\ Returns(1) =>
               /\ available # <<>> => Head(available') = Head(available)
               /\ available' = Append(available, Get(local[1].entry)))]_vars

\* Both entries of a pool were leased, the second was returned first and then
\* the first, and the next checkout has leased the second.
C37_Witness ==
    /\ shape = "fixed" /\ Sequential /\ policy.kind = "None"
    /\ Cardinality(hist.admitted) = 2
    /\ CopiesIn(0, hist.checkouts) = 1 /\ CopiesIn(0, hist.closure_calls) = 1
    /\ CopiesIn(1, hist.checkouts) = 2 /\ CopiesIn(1, hist.closure_calls) = 1
    /\ Len(leases[1]) = 1 /\ leases[1][1].object_id = 1
    /\ Len(available) = 1 /\ available[1].id = 0

\* ---- Construction with a capacity of zero ---------------------------------------

\* ArrayQueue::new(cap) of crossbeam asserts cap > 0 ("capacity must be
\* non-zero"): with a capacity of 0 the constructor of the pool panics.
ArrayQueue_new_panics(cap) == cap = 0

\* MetricsTracker::get_metrics: utilization
get_metrics_utilization(act, cap) == IF cap > 0 THEN f64_div(act, cap) ELSE f64_div(0, 1)

\* The constructors called with any sizes, a capacity of 0 included.  When
\* ObjectPool::new panics there is no pool, and the threads that were to use
\* it make no call.
AnySizes == {s \in [n : 0..MaxInitial, max_pool_size : 0..MaxPoolSize] :
                s.n <= s.max_pool_size}

CtorInit ==
    \E sh \in {"fixed", "queryable", "dynamic"} : \E s \in AnySizes :
        \E objects \in Objects(sh, s.n) :
            \E c \in Policies(PoolConfiguration_default(s.max_pool_size)) :
                /\ (sh # "dynamic" /\ s.max_pool_size > 0) => s.n > 0
                /\ ObjectPool_new(sh, objects, c)
                /\ pc = [t \in Threads |->
                            IF ArrayQueue_new_panics(Max(Len(objects), c.max_pool_size))
                            THEN "panicked" ELSE "idle"]

CtorSpec == CtorInit /\ [][Next]_vars

\* C38: a pool of capacity 0 is constructed, its checkouts yield PoolEmpty
\* (fixed) or PoolFull (dynamic) and its utilization is reported as 0.
C38_ZeroCapacityPool ==
    (shape \in {"fixed", "queryable", "dynamic"} /\ capacity = 0) =>
        /\ \A t \in Threads : pc[t] # "panicked"
        /\ \A t \in Threads :
              ret[t] \in {"none", "pending",
                          IF shape = "dynamic" THEN "PoolFull" ELSE "PoolEmpty"}
        /\ get_metrics_utilization(Cardinality(active), capacity) = f64_div(0, 1)

\* thread 1 waits in get_object_async and takes the first step of a poll
WaiterPolls ==
    /\ IsSome(local[1].deadline)
    /\ local[1].polls >= 2
    /\ pc[1] = "check_cb" /\ pc'[1] # "check_cb"

\* C39: on a fixed pool with the circuit breaker enabled, a poll that the
\* waiting async checkout makes before its deadline, while an entry is back
\* in the queue and no other caller is inside a call, is not turned away: the
\* waiter goes on to take the entry instead of sleeping on towards Timeout.
C39_WaiterGetsReturnedEntry ==
    [][(/\ shape = "fixed" /\ IsSome(cb)
        /\ WaiterPolls
        /\ available # <<>>
        /\ now < Get(local[1].deadline)
        /\ \A t \in Threads \ {1} : Idle(t))
            => pc'[1] # "sleep"]_vars

\* the non-expired entries with value q that are in the queue or set aside in
\* the temp_storage of a thread other than t: nobody leases them
Unleased(t, q) ==
    {e \in {available[i] : i \in 1..Len(available)}
            \cup UNION {{local[u].temp_storage[i] : i \in 1..Len(local[u].temp_storage)} :
                            u \in Threads \ {t}} :
        e.value = q /\ ~is_expired(metadata, policy, e.id, now)}

\* C40: a queryable checkout does not return NoMatchFound while the pool holds
\* a non-expired entry that satisfies its predicate and that no caller leases
\* during the call (here: no lease has been handed out at all), also when
\* another queryable checkout drains and refills the queue at the same time.
C40_MatchFoundDespiteDrain ==
    [][\A t \in Threads :
        (/\ shape = "queryable"
         /\ pc[t] \in {"drain", "refill", "rec_fail"}
         /\ pc'[t] = "idle"
         /\ hist'.checkouts = EmptyBag
         /\ Unleased(t, local[t].query) # {})
            => ret'[t] # "NoMatchFound"]_vars

====
